---- MODULE Spec2Model ----
(***************************************************************************)
(* Station Manager of the sky-view-coverage map viewer: viewport culling, *)
(* device caps, clustering, debounced recompute and progressive loading,  *)
(* modelled as a state machine over the manager's fields, the Leaflet map *)
(* layers, the pending timers and the suspended async functions.          *)
(*                                                                         *)
(* Coordinates are integers.  A station's centroid (lat1+lat2)/2 is kept  *)
(* doubled (lat1+lat2) and compared against doubled bounds, so no         *)
(* fractions appear; Math.sqrt is monotone, so distances are compared by  *)
(* their squares.                                                          *)
(***************************************************************************)
EXTENDS Integers, Sequences, FiniteSets, TLC

(***************************************************************************)
(* Bounds of the exploration                                               *)
(***************************************************************************)
\* stations in the data set handed to setStations
NumStations == 4
\* updateVisibleStations invocations after which no further call is made
MaxRecomputes == 4
\* debounce timers scheduled by move/zoom events
MaxTimers == 2
\* stations and invocations where the device cap is exceeded (SpecCap)
NumStationsCap == 22
MaxRecomputesCap == 3
\* navigator.hardwareConcurrency up to MaxCores, navigator.deviceMemory up to
\* 2^MaxMemoryLog quarters of a GB
MaxCores == 5
MaxMemoryLog == 4
\* updateVisibleStations invocations with a malformed station list
MaxRecomputesMalformed == 2
\* samples and calls of the monitor's interface (SpecMonitor)
MaxSamples == 4
\* updateVisibleStations invocations and undelivered performance entries
\* while render times are measured (SpecRender)
MaxRecomputesRender == 2
MaxEntries == 1
\* stations in SpecSpread: more of them have an image than LOW_END
NumStationsSpread == 31
\* recomputes in SpecOverlap
MaxRecomputesOverlap == 2
\* recomputes in SpecReload
MaxRecomputesReload == 2
\* technical records in a list (SpecTechnical)
MaxTechnical == 2
\* points merged into one cluster (SpecReduce)
MaxMembers == 4

(***************************************************************************)
(* Program constants (constants/performance.js)                            *)
(***************************************************************************)
LOW_END == 20
STANDARD == 50
TABLET == 100
DESKTOP_STANDARD == 500
BUFFER_PERCENTAGE_TENTHS == 2
MIN_POINTS_TO_CLUSTER == 2
DISABLE_CLUSTERING_AT_ZOOM == 15
BATCH_SIZE == 10
LOAD_DELAY_MS == 100
FPS_CHECK_INTERVAL_MS == 1000
INITIAL_ZOOM == 10
MAP_INITIAL_ZOOM == 6
MAX_MEMORY_MB == 100
MAX_RENDER_TIME_MS == 16
MOBILE_STATION_COUNT == 100
MEMORY_USAGE_MB == 80
LOW_FPS_THRESHOLD == 20
MIN_FPS == 30

Max(a, b) == IF a >= b THEN a ELSE b
Min(a, b) == IF a <= b THEN a ELSE b

(***************************************************************************)
(* Device detection (utils/deviceDetection.js).  A navigator is            *)
(* [present, ua, hardwareConcurrency, deviceMemory4, effectiveType]: ua is *)
(* the set of tokens occurring in the user-agent string, deviceMemory4 is  *)
(* navigator.deviceMemory in quarters of a GB, 0 stands for "undefined".   *)
(***************************************************************************)
MobileTokens == {"Android", "iPhone", "iPad", "iPod", "BlackBerry", "IEMobile", "Opera Mini"}

isMobile(nav) ==
  IF ~nav.present THEN FALSE ELSE nav.ua \cap MobileTokens # {}

\* /iPad|Android.*(?!Mobile)|Tablet/i : the lookahead is satisfied at the end
\* of the string, so the middle alternative matches whenever Android occurs
getDeviceType(nav) ==
  IF ~nav.present THEN "desktop"
  ELSE IF nav.ua \cap {"iPad", "Android", "Tablet"} # {} THEN "tablet"
  ELSE IF nav.ua \cap (MobileTokens \ {"iPad"}) # {} THEN "mobile"
  ELSE "desktop"

\* getPerformanceTier grading every slow connection as medium
getPerformanceTierSlowIsMedium(nav) ==
  IF ~nav.present THEN "high"
  ELSE LET cores  == IF nav.hardwareConcurrency = 0 THEN 8 ELSE nav.hardwareConcurrency
           memory == IF nav.deviceMemory4 = 0 THEN 16 ELSE nav.deviceMemory4
       IN  IF cores <= 2 \/ memory <= 4 THEN "low"
           ELSE IF cores <= 4 \/ memory <= 8 THEN "medium"
           ELSE IF nav.effectiveType \in {"slow-2g", "2g", "3g"} THEN "medium"
           ELSE "high"

\* getPerformanceTier with the default memory of isLowEndDevice's threshold
getPerformanceTierDefaultMemory2(nav) ==
  IF ~nav.present THEN "high"
  ELSE LET cores  == IF nav.hardwareConcurrency = 0 THEN 8 ELSE nav.hardwareConcurrency
           memory == IF nav.deviceMemory4 = 0 THEN 8 ELSE nav.deviceMemory4
       IN  IF cores <= 2 \/ memory <= 4 THEN "low"
           ELSE IF cores <= 4 \/ memory <= 8 THEN "medium"
           ELSE IF nav.effectiveType \in {"slow-2g", "2g"} THEN "low"
           ELSE IF nav.effectiveType = "3g" THEN "medium"
           ELSE "high"

getPerformanceTier(nav) ==
  IF ~nav.present THEN "high"
  ELSE LET cores  == IF nav.hardwareConcurrency = 0 THEN 8 ELSE nav.hardwareConcurrency
           memory == IF nav.deviceMemory4 = 0 THEN 16 ELSE nav.deviceMemory4
       IN  IF cores <= 2 \/ memory <= 4 THEN "low"
           ELSE IF cores <= 4 \/ memory <= 8 THEN "medium"
           ELSE IF nav.effectiveType \in {"slow-2g", "2g"} THEN "low"
           ELSE IF nav.effectiveType = "3g" THEN "medium"
           ELSE "high"

\* getRecommendedSettings with progressive loading on every tier below high
getRecommendedSettingsProgressiveBelowHigh(nav) ==
  LET performanceTier == getPerformanceTier(nav)
      mobile == isMobile(nav)
  IN  [ maxVisibleMarkers        |-> IF mobile THEN (IF performanceTier = "low" THEN 20 ELSE 50) ELSE 500,
        enableClustering         |-> mobile \/ performanceTier # "high",
        enableProgressiveLoading |-> mobile \/ performanceTier # "high",
        enableAnimations         |-> performanceTier # "low",
        compressionQuality       |-> IF performanceTier = "low" THEN 3 ELSE 5,
        debounceDelay            |-> IF performanceTier = "low" THEN 300 ELSE 150 ]

\* getRecommendedSettings with the low-tier cap applied whatever the user agent
getRecommendedSettingsLowCapEverywhere(nav) ==
  LET performanceTier == getPerformanceTier(nav)
      mobile == isMobile(nav)
  IN  [ maxVisibleMarkers        |-> IF performanceTier = "low" THEN 20 ELSE IF mobile THEN 50 ELSE 500,
        enableClustering         |-> mobile \/ performanceTier # "high",
        enableProgressiveLoading |-> mobile \/ performanceTier = "low",
        enableAnimations         |-> performanceTier # "low",
        compressionQuality       |-> IF performanceTier = "low" THEN 3 ELSE 5,
        debounceDelay            |-> IF performanceTier = "low" THEN 300 ELSE 150 ]

\* compressionQuality is kept in tenths
getRecommendedSettings(nav) ==
  LET performanceTier == getPerformanceTier(nav)
      mobile == isMobile(nav)
  IN  [ maxVisibleMarkers        |-> IF mobile THEN (IF performanceTier = "low" THEN 20 ELSE 50) ELSE 500,
        enableClustering         |-> mobile \/ performanceTier # "high",
        enableProgressiveLoading |-> mobile \/ performanceTier = "low",
        enableAnimations         |-> performanceTier # "low",
        compressionQuality       |-> IF performanceTier = "low" THEN 3 ELSE 5,
        debounceDelay            |-> IF performanceTier = "low" THEN 300 ELSE 150 ]

DesktopNav ==
  [present |-> TRUE, ua |-> {"Windows"}, hardwareConcurrency |-> 8,
   deviceMemory4 |-> 32, effectiveType |-> "4g"]

IPhoneLowNav ==
  [present |-> TRUE, ua |-> {"iPhone", "Mobile"}, hardwareConcurrency |-> 2,
   deviceMemory4 |-> 0, effectiveType |-> ""]

Navigators == {DesktopNav, IPhoneLowNav}

\* the host has no navigator object (server-side rendering)
NoNavigator ==
  [present |-> FALSE, ua |-> {}, hardwareConcurrency |-> 0,
   deviceMemory4 |-> 0, effectiveType |-> ""]

UserAgents ==
  { {}, {"Windows"}, {"Windows", "Tablet"}, {"iPhone", "Mobile"},
    {"Android", "Mobile"}, {"Android"}, {"iPad"} }

\* "" : navigator.connection (or its effectiveType) is undefined
EffectiveTypes == {"", "slow-2g", "2g", "3g", "4g"}

\* every environment: user agent, cores (0: undefined), memory (0: undefined)
\* and connection
AllNavigators ==
  {NoNavigator} \cup
  [ present : {TRUE}, ua : UserAgents, hardwareConcurrency : 0..MaxCores,
    deviceMemory4 : {0} \cup {2 ^ k : k \in 0..MaxMemoryLog},
    effectiveType : EffectiveTypes ]

(***************************************************************************)
(* Station data (lib/stationData loadStationsFromCSV, types/map Station).  *)
(* The data set is fixed; the page toggles `visible` and hands the whole   *)
(* list to setStations again.  Every third station has an empty imageUrl   *)
(* (row.url missing: imageUrl || ''); the image of station 2 is served by  *)
(* a host whose answer may be an error.                                    *)
(***************************************************************************)
StationLat(i) == 9 + ((i - 1) % 2) - 11 * (((i - 1) \div 2) % 2)
StationLng(i) ==
  LET block == (i - 1) \div 4
  IN  IF block % 2 = 1 THEN 10 + (block + 1) \div 2 ELSE 10 - block \div 2

\* "" : no url in the data; "unreliable.png" : a url whose request may fail
ImageUrlOf(i) ==
  IF i % 3 = 0 THEN "" ELSE IF i = 2 THEN "unreliable.png" ELSE "ok.png"

StationRecord(i, vis) ==
  [ id       |-> i,
    bounds   |-> << <<StationLat(i) - 1, StationLng(i) - 1>>,
                    <<StationLat(i) + 1, StationLng(i) + 1>> >>,
    imageUrl |-> ImageUrlOf(i),
    visible  |-> vis ]

\* the list of the first n stations, those in mask visible
StationList(n, mask) == [i \in 1..n |-> StationRecord(i, i \in mask)]

StationLists ==
  { StationList(NumStations, (1..NumStations) \ hidden) :
      hidden \in {{}, {1}, 2..NumStations} }

StationListsCap ==
  { StationList(NumStationsCap, (1..NumStationsCap) \ hidden) : hidden \in {{}, {1}} }

\* station lists with one station whose bounds are malformed: missing, one
\* corner only, a third corner, a corner without longitude
MalformedKinds == {"missing", "oneCorner", "threeCorners", "shortCorner"}

MalformedBounds(i, kind) ==
  LET sw == <<StationLat(i) - 1, StationLng(i) - 1>>
      ne == <<StationLat(i) + 1, StationLng(i) + 1>>
  IN  IF kind = "missing" THEN <<>>
      ELSE IF kind = "oneCorner" THEN <<sw>>
      ELSE IF kind = "threeCorners" THEN <<sw, ne, ne>>
      ELSE <<sw, <<StationLat(i) + 1>> >>

StationListsMalformed ==
  { [StationList(NumStations, (1..NumStations) \ hidden)
       EXCEPT ![k].bounds = MalformedBounds(k, kind)] :
      hidden \in {{}, {1}}, k \in 1..2, kind \in MalformedKinds }

\* map.getBounds(): the view before and after a pan inside the 20% buffer
ViewA == [north |-> 20, south |-> 0, east |-> 20, west |-> 0]
ViewB == [north |-> 24, south |-> 4, east |-> 20, west |-> 0]
Views == {ViewA, ViewB}
ZoomLevels == {MAP_INITIAL_ZOOM, DISABLE_CLUSTERING_AT_ZOOM}

NullBounds == [north |-> 0, south |-> 0, east |-> 0, west |-> 0]

(***************************************************************************)
(* Viewport culling and prioritisation (StationManager)                    *)
(***************************************************************************)
getCurrentBounds(view) ==
  LET latDiff == view.north - view.south
      lngDiff == view.east - view.west
  IN  [ north |-> view.north + (latDiff * BUFFER_PERCENTAGE_TENTHS) \div 10,
        south |-> view.south - (latDiff * BUFFER_PERCENTAGE_TENTHS) \div 10,
        east  |-> view.east + (lngDiff * BUFFER_PERCENTAGE_TENTHS) \div 10,
        west  |-> view.west - (lngDiff * BUFFER_PERCENTAGE_TENTHS) \div 10 ]

\* doubled centroid of a station's bounds
CenterLat2(station) == station.bounds[1][1] + station.bounds[2][1]
CenterLng2(station) == station.bounds[1][2] + station.bounds[2][2]

\* `const [[lat1, lng1], [lat2, lng2]] = station.bounds` raises a TypeError
\* when bounds has fewer than two corners: undefined is not iterable.  <<>>
\* stands for a station without bounds.
DestructuringThrows(station) ==
  station.bounds # <<>> /\ Len(station.bounds) < 2

\* a corner with fewer than two numbers leaves a coordinate undefined: the
\* centroid is NaN and every comparison with it is false
CentroidIsNaN(station) ==
  \E i \in 1..2 : Len(station.bounds[i]) < 2

isStationInBounds(station, bounds) ==
  IF station.bounds = <<>> THEN FALSE
  ELSE IF DestructuringThrows(station) THEN FALSE
  ELSE IF CentroidIsNaN(station) THEN FALSE
  ELSE /\ CenterLat2(station) >= 2 * bounds.south
       /\ CenterLat2(station) <= 2 * bounds.north
       /\ CenterLng2(station) >= 2 * bounds.west
       /\ CenterLng2(station) <= 2 * bounds.east

getMaxVisibleStations(deviceType, performanceTier) ==
  IF deviceType = "mobile"
    THEN (IF performanceTier = "low" THEN LOW_END ELSE STANDARD)
  ELSE IF deviceType = "tablet" THEN TABLET
  ELSE DESKTOP_STANDARD

\* four times the squared distance of the centroid from the centre of bounds
DistanceFromCenter(station, bounds) ==
  LET dLat == CenterLat2(station) - (bounds.north + bounds.south)
      dLng == CenterLng2(station) - (bounds.east + bounds.west)
  IN  dLat * dLat + dLng * dLng

\* Array.prototype.sort is stable: an element is inserted after every element
\* that is not farther than it
RECURSIVE InsertByDistance(_, _, _)
InsertByDistance(sorted, station, bounds) ==
  IF sorted = <<>> THEN <<station>>
  ELSE IF DistanceFromCenter(Head(sorted), bounds) <= DistanceFromCenter(station, bounds)
    THEN <<Head(sorted)>> \o InsertByDistance(Tail(sorted), station, bounds)
    ELSE <<station>> \o sorted

RECURSIVE SortByDistance(_, _)
SortByDistance(stations, bounds) ==
  IF stations = <<>> THEN <<>>
  ELSE InsertByDistance(SortByDistance(SubSeq(stations, 1, Len(stations) - 1), bounds),
                        stations[Len(stations)], bounds)

\* prioritizeStations without the sort: the first maxCount candidates
prioritizeStationsUnsorted(stations, maxCount, bounds) ==
  IF Len(stations) <= maxCount THEN stations ELSE SubSeq(stations, 1, maxCount)

prioritizeStations(stations, maxCount, bounds) ==
  IF Len(stations) <= maxCount THEN stations
  ELSE SubSeq(SortByDistance(stations, bounds), 1, maxCount)

SeqToSet(s) == {s[i] : i \in 1..Len(s)}
IdsOf(s) == {s[i].id : i \in 1..Len(s)}

(***************************************************************************)
(* Spatial clusterer (utils/clustering.js).  The Supercluster index is     *)
(* abstracted to a grid: the points of one grid cell at the queried zoom   *)
(* merge into a cluster when they are at least MIN_POINTS_TO_CLUSTER; the  *)
(* cell width halves with every zoom level.  As in Supercluster, the       *)
(* answer is a function of the loaded points, the box and the zoom, so the *)
(* same query yields the same cluster ids.                                 *)
(***************************************************************************)
stationsToGeoJSON(stations) ==
  { [ id   |-> stations[i].id,
      nan  |-> CentroidIsNaN(stations[i]),
      lat2 |-> IF CentroidIsNaN(stations[i]) THEN 0 ELSE CenterLat2(stations[i]),
      lng2 |-> IF CentroidIsNaN(stations[i]) THEN 0 ELSE CenterLng2(stations[i]) ] :
      i \in {j \in 1..Len(stations) : stations[j].bounds # <<>> /\ Len(stations[j].bounds) = 2} }

\* the point features cluster.load receives
loadStations(stations) ==
  stationsToGeoJSON(SelectSeq(stations, LAMBDA station : station.visible))

CellSpan(zoom) == 2 ^ Max(0, 9 - zoom)
CellOf(point, zoom) ==
  <<point.lat2 \div (2 * CellSpan(zoom)), point.lng2 \div (2 * CellSpan(zoom))>>

RECURSIVE SumOver(_, _)
SumOver(S, field) ==
  IF S = {} THEN 0
  ELSE LET x == CHOOSE y \in S : TRUE
       IN  (IF field = "lat2" THEN x.lat2 ELSE x.lng2) + SumOver(S \ {x}, field)

\* the centre of a group of points lies in the queried box
GroupInBox(members, bounds) ==
  LET n == Cardinality(members)
  IN  /\ SumOver(members, "lat2") >= 2 * n * bounds.south
      /\ SumOver(members, "lat2") <= 2 * n * bounds.north
      /\ SumOver(members, "lng2") >= 2 * n * bounds.west
      /\ SumOver(members, "lng2") <= 2 * n * bounds.east

\* a point with a NaN coordinate is in the index but no query finds it:
\* every comparison with NaN is false
Located(index) == {p \in index : ~p.nan}

\* cluster.getClusters(bbox, zoom): one feature per occupied cell
SuperclusterFeatures(index, bounds, zoom) ==
  LET cells == {CellOf(p, zoom) : p \in Located(index)}
      membersOf(c) == {p \in Located(index) : CellOf(p, zoom) = c}
  IN  { [ cluster     |-> Cardinality(membersOf(c)) >= MIN_POINTS_TO_CLUSTER,
          cluster_id  |-> [cell |-> c, zoom |-> zoom],
          point_count |-> Cardinality(membersOf(c)),
          ids         |-> {p.id : p \in membersOf(c)} ] :
        c \in {d \in cells : GroupInBox(membersOf(d), bounds)} }

getClusters(index, bounds, zoom) ==
  LET features == SuperclusterFeatures(index, bounds, zoom)
  IN  [ clusters |-> {f.cluster_id : f \in {g \in features : g.cluster}},
        points   |-> UNION {f.ids : f \in {g \in features : ~g.cluster}} ]

\* the cluster properties: Supercluster starts a cluster from initial() and
\* calls reduce with map(point properties) for every point it merges
initial == [stationCount |-> 0, totalArea |-> 0, stationNames |-> <<>>]

\* area in square degrees; <<>> stands for a station without bounds
calculateStationArea(bounds) ==
  IF bounds = <<>> \/ Len(bounds) # 2 THEN 0
  ELSE LET latDiff == bounds[2][1] - bounds[1][1]
           lngDiff == bounds[2][2] - bounds[1][2]
       IN  (IF latDiff < 0 THEN -latDiff ELSE latDiff) * (IF lngDiff < 0 THEN -lngDiff ELSE lngDiff)

\* the properties the reduce step reads; "" stands for a station without name
map(station) == [name |-> station.name, area |-> calculateStationArea(station.bounds)]

reduce(accumulated, props) ==
  [ stationCount |-> accumulated.stationCount + 1,
    totalArea    |-> accumulated.totalArea + props.area,
    stationNames |-> IF props.name # "" /\ Len(accumulated.stationNames) < 3
                       THEN Append(accumulated.stationNames, props.name)
                       ELSE accumulated.stationNames ]

\* stations as the clusterer receives them: named or not, with or without
\* bounds
NamedStations ==
  [ name   : {"", "Alpha", "Beta", "Gamma", "Delta"},
    bounds : {<<>>, << <<3, 1>>, <<1, 2>> >>} ]

\* the limit argument of getLeaves: Infinity, or the library's default of 10
Infinity == [unbounded |-> TRUE, n |-> 0]
DefaultLimit == [unbounded |-> FALSE, n |-> 10]

\* cluster.getLeaves(clusterId, limit): the ids of the first `limit` points
\* merged into the cluster, in index order
SuperclusterLeaves(index, clusterId, limit) ==
  LET members == {p.id : p \in {q \in Located(index) : CellOf(q, clusterId.zoom) = clusterId.cell}}
  IN  IF limit.unbounded THEN members
      ELSE {id \in members : Cardinality({other \in members : other < id}) < limit.n}

\* getClusterStations leaving the limit to the library
getClusterStationsDefaultLimit(index, clusterId) ==
  SuperclusterLeaves(index, clusterId, DefaultLimit)

getClusterStations(index, clusterId) ==
  SuperclusterLeaves(index, clusterId, Infinity)

\* shouldCluster with the threshold zoom included
shouldClusterInclusive(zoom) == zoom <= DISABLE_CLUSTERING_AT_ZOOM

shouldCluster(zoom) == zoom < DISABLE_CLUSTERING_AT_ZOOM

\* a set of station ids as a sequence in ascending order
RECURSIVE SetToSeq(_)
SetToSeq(S) ==
  IF S = {} THEN <<>>
  ELSE LET x == CHOOSE y \in S : \A z \in S : y <= z
       IN  <<x>> \o SetToSeq(S \ {x})

(***************************************************************************)
(* State                                                                   *)
(***************************************************************************)
VARIABLES
  \* StationManager fields
  stations, renderedStations, overlayRefs, clusterMarkerRefs, loadingQueue,
  isProcessing, settings, deviceType, performanceTier, clusteringEnabled,
  currentZoom, currentBounds, updateTimer,
  \* StationClusterer: the points loaded into the index
  clusterIndex,
  \* the Leaflet map: view, zoom, image overlays and markers on the map,
  \* overlays whose image request has not finished
  mapView, mapZoom, mapOverlays, mapMarkers, imgLoading,
  \* the event loop: pending debounce timers, the position of the
  \* processLoadingQueue loop, suspended addStationOverlay calls of its
  \* batches in the order they were made, suspended renderIndividualPoints
  \* and renderClusters calls
  timers, timerSeq, drainPc, overlayTasks, pointLoops, clusterTasks,
  \* bookkeeping of the verification: number of updateVisibleStations
  \* invocations, what the latest one selected, the queue entries that were
  \* discarded before being issued, the call or event of the latest task,
  \* whether a call of the manager ended in an uncaught exception
  epoch, selStations, selClusters, lastMode, skipped, lastOp, thrown,
  \* the host environment: window.navigator
  navigator,
  \* PerformanceMonitor fields (warnings, metrics), the measure entries the
  \* browser has not yet handed to the PerformanceObserver, and bookkeeping
  \* of the verification: per warning type the threshold breaches and the
  \* invocations of the warning callback since the type was last removed
  \* from the warnings, and the invocations since its last clearWarning
  monitor, perfEntries, notified, callsSinceClear,
  \* the number of tasks of the monitor so far
  samples,
  \* leaflet-map.tsx: the report most recently handed to the report callback
  performanceStats,
  \* bookkeeping: stopMonitoring or cleanup has been called and startMonitoring has not been called since
  tornDown,
  \* the properties Supercluster is accumulating for one cluster, and bookkeeping: the point properties merged into it so far
  reduction,
  \* leaflet-map.tsx: currentTechnicalData, the ids of technicalMarkerRefs, and nearestStations
  technical,
  \* the stations most recently given an accessibility score, latest last: station, distance (hundredths of a km) and score
  scored,
  \* bookkeeping: the queue entries (station id and recompute) ever pushed on the loading queue, those handed to addStationOverlay by a batch, and the number of drain loops started and not yet ended
  queueLog,
  \* the map delivers moveend/zoomend/resize to the manager; leaflet-map.tsx: stationManagerRef.current is set; bookkeeping: what was pending when cleanup was called
  lifecycle

vars ==
  << stations, renderedStations, overlayRefs, clusterMarkerRefs, loadingQueue,
     isProcessing, settings, deviceType, performanceTier, clusteringEnabled,
     currentZoom, currentBounds, updateTimer, clusterIndex,
     mapView, mapZoom, mapOverlays, mapMarkers, imgLoading,
     timers, timerSeq, drainPc, overlayTasks, pointLoops, clusterTasks,
     epoch, selStations, selClusters, lastMode, skipped, lastOp, thrown,
     navigator, monitor, perfEntries, notified, callsSinceClear, samples, performanceStats, tornDown, reduction, technical, scored, queueLog, lifecycle >>

\* the current state as one record, so that a handler that calls several
\* methods in a row is the composition of their effects
M ==
  [ stations |-> stations, renderedStations |-> renderedStations,
    overlayRefs |-> overlayRefs, clusterMarkerRefs |-> clusterMarkerRefs,
    loadingQueue |-> loadingQueue, isProcessing |-> isProcessing,
    settings |-> settings, deviceType |-> deviceType,
    performanceTier |-> performanceTier, clusteringEnabled |-> clusteringEnabled,
    currentZoom |-> currentZoom, currentBounds |-> currentBounds,
    updateTimer |-> updateTimer, clusterIndex |-> clusterIndex,
    mapView |-> mapView, mapZoom |-> mapZoom, mapOverlays |-> mapOverlays,
    mapMarkers |-> mapMarkers, imgLoading |-> imgLoading,
    timers |-> timers, timerSeq |-> timerSeq, drainPc |-> drainPc,
    overlayTasks |-> overlayTasks, pointLoops |-> pointLoops,
    clusterTasks |-> clusterTasks,
    epoch |-> epoch, selStations |-> selStations, selClusters |-> selClusters,
    lastMode |-> lastMode, skipped |-> skipped, lastOp |-> lastOp,
    thrown |-> thrown, navigator |-> navigator,
    monitor |-> monitor, perfEntries |-> perfEntries,
    notified |-> notified, callsSinceClear |-> callsSinceClear,
    samples |-> samples,
    performanceStats |-> performanceStats,
    tornDown |-> tornDown,
    reduction |-> reduction,
    technical |-> technical,
    scored |-> scored,
    queueLog |-> queueLog,
    lifecycle |-> lifecycle ]

Becomes(m) ==
  /\ stations' = m.stations
  /\ renderedStations' = m.renderedStations
  /\ overlayRefs' = m.overlayRefs
  /\ clusterMarkerRefs' = m.clusterMarkerRefs
  /\ loadingQueue' = m.loadingQueue
  /\ isProcessing' = m.isProcessing
  /\ settings' = m.settings
  /\ deviceType' = m.deviceType
  /\ performanceTier' = m.performanceTier
  /\ clusteringEnabled' = m.clusteringEnabled
  /\ currentZoom' = m.currentZoom
  /\ currentBounds' = m.currentBounds
  /\ updateTimer' = m.updateTimer
  /\ clusterIndex' = m.clusterIndex
  /\ mapView' = m.mapView
  /\ mapZoom' = m.mapZoom
  /\ mapOverlays' = m.mapOverlays
  /\ mapMarkers' = m.mapMarkers
  /\ imgLoading' = m.imgLoading
  /\ timers' = m.timers
  /\ timerSeq' = m.timerSeq
  /\ drainPc' = m.drainPc
  /\ overlayTasks' = m.overlayTasks
  /\ pointLoops' = m.pointLoops
  /\ clusterTasks' = m.clusterTasks
  /\ epoch' = m.epoch
  /\ selStations' = m.selStations
  /\ selClusters' = m.selClusters
  /\ lastMode' = m.lastMode
  /\ skipped' = m.skipped
  /\ lastOp' = m.lastOp
  /\ thrown' = m.thrown
  /\ navigator' = m.navigator
  /\ monitor' = m.monitor
  /\ perfEntries' = m.perfEntries
  /\ notified' = m.notified
  /\ callsSinceClear' = m.callsSinceClear
  /\ samples' = m.samples
  /\ performanceStats' = m.performanceStats
  /\ tornDown' = m.tornDown
  /\ reduction' = m.reduction
  /\ technical' = m.technical
  /\ scored' = m.scored
  /\ queueLog' = m.queueLog
  /\ lifecycle' = m.lifecycle

\* no continuation of an async function is waiting for the module promise
\* or for Promise.allSettled
NoMicrotask(m) ==
  /\ m.overlayTasks = <<>>
  /\ m.pointLoops = {}
  /\ m.clusterTasks = {}
  /\ m.drainPc # "batch"

\* no asynchronous work is pending
QuiescentIn(m) ==
  /\ NoMicrotask(m)
  /\ m.drainPc = "idle"
  /\ m.imgLoading = {}
  /\ m.timers = {}

Quiescent == QuiescentIn(M)

(***************************************************************************)
(* StationManager: overlays.  An overlay or marker object is identified by *)
(* its key and the updateVisibleStations invocation it was created for; an *)
(* overlay also records the caller of addStationOverlay that created it    *)
(* ("queue": processLoadingQueue, "points": renderIndividualPoints).       *)
(***************************************************************************)
\* addStationOverlay without the test of imageUrl
addStationOverlayStartsAnyUrl(station, rendered) == station.id \notin rendered

\* addStationOverlay up to its await: TRUE when the call goes on to create
\* the overlay
addStationOverlayStarts(station, rendered) ==
  ~(station.imageUrl = "" \/ station.id \in rendered)

\* addStationOverlay after `await import('leaflet')`
addStationOverlayFinish(m, id, ep, via) ==
  LET imageOverlay == [id |-> id, ep |-> ep, via |-> via]
  IN  [m EXCEPT !.mapOverlays = @ \cup {imageOverlay},
                !.imgLoading = @ \cup (IF ImageUrlOf(id) = "unreliable.png" THEN {imageOverlay} ELSE {}),
                !.overlayRefs = {o \in @ : o.id # id} \cup {imageOverlay},
                !.renderedStations = @ \cup {id}]

\* removeStationOverlay leaving the id among the rendered ones
removeStationOverlayKeepsRendered(m, stationId) ==
  LET found == {o \in m.overlayRefs : o.id = stationId}
  IN  [m EXCEPT !.mapOverlays = @ \ found,
                !.overlayRefs = @ \ found]

removeStationOverlay(m, stationId) ==
  LET found == {o \in m.overlayRefs : o.id = stationId}
  IN  [m EXCEPT !.mapOverlays = @ \ found,
                !.overlayRefs = @ \ found,
                !.renderedStations = @ \ {stationId}]

\* clearAllOverlays leaving the loading queue as it is
clearAllOverlaysKeepQueue(m) ==
  [m EXCEPT !.mapOverlays = @ \ m.overlayRefs,
            !.overlayRefs = {},
            !.renderedStations = {}]

clearAllOverlays(m) ==
  [m EXCEPT !.mapOverlays = @ \ m.overlayRefs,
            !.overlayRefs = {},
            !.renderedStations = {},
            !.loadingQueue = <<>>,
            !.skipped = @ \cup {[id |-> m.loadingQueue[i].station.id, ep |-> m.loadingQueue[i].ep] :
                                  i \in 1..Len(m.loadingQueue)}]

clearAllMarkers(m) ==
  LET m1 == clearAllOverlays(m)
  IN  [m1 EXCEPT !.mapMarkers = @ \ m1.clusterMarkerRefs,
                 !.clusterMarkerRefs = {}]

(***************************************************************************)
(* StationManager: progressive loading                                     *)
(***************************************************************************)
\* the while loop of processLoadingQueue taking the whole queue as one batch
DrainLoopWholeQueue(m) ==
  IF Len(m.loadingQueue) > 0
    THEN LET started == SelectSeq(m.loadingQueue, LAMBDA e :
                          addStationOverlayStarts(e.station, m.renderedStations))
         IN  [m EXCEPT !.loadingQueue = <<>>,
                       !.overlayTasks = @ \o [i \in 1..Len(started) |->
                                                [id |-> started[i].station.id, ep |-> started[i].ep,
                                                 via |-> "queue"]],
                       !.queueLog.attempted = IF m.queueLog.on
                                                 THEN @ \cup {[id |-> m.loadingQueue[i].station.id,
                                                                 ep |-> m.loadingQueue[i].ep] :
                                                                 i \in 1..Len(m.loadingQueue)}
                                                 ELSE @,
                       !.drainPc = "batch"]
    ELSE [m EXCEPT !.isProcessing = FALSE, !.drainPc = "idle", !.queueLog.loops = @ - 1]

\* processLoadingQueue without the finally block: isProcessing stays set
DrainLoopKeepsProcessing(m) ==
  IF Len(m.loadingQueue) > 0
    THEN LET n == Min(BATCH_SIZE, Len(m.loadingQueue))
             batch == SubSeq(m.loadingQueue, 1, n)
             started == SelectSeq(batch, LAMBDA e :
                          addStationOverlayStarts(e.station, m.renderedStations))
         IN  [m EXCEPT !.loadingQueue = SubSeq(@, n + 1, Len(@)),
                       !.overlayTasks = @ \o [i \in 1..Len(started) |->
                                                [id |-> started[i].station.id, ep |-> started[i].ep,
                                                 via |-> "queue"]],
                       !.queueLog.attempted = IF m.queueLog.on
                                                 THEN @ \cup {[id |-> batch[i].station.id, ep |-> batch[i].ep] :
                                                                 i \in 1..n}
                                                 ELSE @,
                       !.drainPc = "batch"]
    ELSE [m EXCEPT !.drainPc = "idle", !.queueLog.loops = @ - 1]

\* one turn of the while loop of processLoadingQueue, up to its next await
DrainLoop(m) ==
  IF Len(m.loadingQueue) > 0
    THEN LET n == Min(BATCH_SIZE, Len(m.loadingQueue))
             batch == SubSeq(m.loadingQueue, 1, n)
             started == SelectSeq(batch, LAMBDA e :
                          addStationOverlayStarts(e.station, m.renderedStations))
         IN  [m EXCEPT !.loadingQueue = SubSeq(@, n + 1, Len(@)),
                       !.overlayTasks = @ \o [i \in 1..Len(started) |->
                                                [id |-> started[i].station.id, ep |-> started[i].ep,
                                                 via |-> "queue"]],
                       !.queueLog.attempted = IF m.queueLog.on
                                                 THEN @ \cup {[id |-> batch[i].station.id, ep |-> batch[i].ep] :
                                                                 i \in 1..n}
                                                 ELSE @,
                       !.drainPc = "batch"]
    ELSE [m EXCEPT !.isProcessing = FALSE, !.drainPc = "idle", !.queueLog.loops = @ - 1]

\* processLoadingQueue past its guard: a drain loop starts
startDrain(m) ==
  DrainLoop([m EXCEPT !.isProcessing = TRUE, !.queueLog.loops = @ + 1])

processLoadingQueue(m) ==
  IF m.isProcessing \/ Len(m.loadingQueue) = 0 THEN m
  ELSE startDrain(m)

\* the stations of ids, in that order, that are in the list
RECURSIVE FindStations(_, _)
FindStations(ids, list) ==
  IF ids = <<>> THEN <<>>
  ELSE LET hits == SelectSeq(list, LAMBDA s : s.id = Head(ids))
       IN  (IF hits = <<>> THEN <<>> ELSE <<Head(hits)>>) \o FindStations(Tail(ids), list)

RECURSIVE RemoveAll(_, _)
RemoveAll(m, ids) ==
  IF ids = {} THEN m
  ELSE LET id == CHOOSE x \in ids : TRUE
       IN  RemoveAll(removeStationOverlay(m, id), ids \ {id})

\* handleStationUpdates calling addStationOverlay itself instead of queuing
handleStationUpdatesDirect(m, newVisible) ==
  LET m1 == RemoveAll(m, m.renderedStations \ SeqToSet(newVisible))
      toAdd == SelectSeq(newVisible, LAMBDA id : id \notin m1.renderedStations)
      found == FindStations(toAdd, m1.stations)
      started == SelectSeq(found, LAMBDA station :
                   addStationOverlayStarts(station, m1.renderedStations))
  IN  [m1 EXCEPT !.overlayTasks = @ \o [i \in 1..Len(started) |->
                                          [id |-> started[i].id, ep |-> m1.epoch, via |-> "direct"]]]

\* handleStationUpdates starting a drain loop whenever it queued stations,
\* whether or not one is running
handleStationUpdatesSecondLoop(m, newVisible) ==
  LET m1 == RemoveAll(m, m.renderedStations \ SeqToSet(newVisible))
      toAdd == SelectSeq(newVisible, LAMBDA id : id \notin m1.renderedStations)
      found == FindStations(toAdd, m1.stations)
      m2 == [m1 EXCEPT
               !.loadingQueue = @ \o [i \in 1..Len(found) |-> [station |-> found[i], ep |-> m1.epoch]]]
  IN  IF Len(m2.loadingQueue) > 0 THEN startDrain(m2) ELSE m2

\* handleStationUpdates queuing the stations without starting the drain
handleStationUpdatesNoDrain(m, newVisible) ==
  LET m1 == RemoveAll(m, m.renderedStations \ SeqToSet(newVisible))
      toAdd == SelectSeq(newVisible, LAMBDA id : id \notin m1.renderedStations)
      found == FindStations(toAdd, m1.stations)
  IN  [m1 EXCEPT
         !.loadingQueue = @ \o [i \in 1..Len(found) |-> [station |-> found[i], ep |-> m1.epoch]]]

\* newVisible: the ids of the stations to show, in the order of the Set
handleStationUpdates(m, newVisible) ==
  LET m1 == RemoveAll(m, m.renderedStations \ SeqToSet(newVisible))
      toAdd == SelectSeq(newVisible, LAMBDA id : id \notin m1.renderedStations)
      found == FindStations(toAdd, m1.stations)
      m2 == [m1 EXCEPT
               !.loadingQueue = @ \o [i \in 1..Len(found) |-> [station |-> found[i], ep |-> m1.epoch]],
               !.queueLog.enqueued = IF m1.queueLog.on
                                       THEN @ \cup {[id |-> found[i].id, ep |-> m1.epoch] : i \in 1..Len(found)}
                                       ELSE @]
  IN  IF ~m2.isProcessing /\ Len(m2.loadingQueue) > 0
        THEN processLoadingQueue(m2)
        ELSE m2

(***************************************************************************)
(* StationManager: rendering in clustering mode                            *)
(***************************************************************************)
\* renderClusters after `await import('leaflet')`: one marker per cluster
renderClustersFinish(m, task) ==
  LET markers == {[id |-> c, ep |-> task.ep] : c \in task.clusters}
  IN  [m EXCEPT !.mapMarkers = @ \cup markers,
                !.clusterMarkerRefs = {o \in @ : o.id \notin task.clusters} \cup markers]

\* the for loop of renderIndividualPoints up to its next await: points whose
\* station is not in the list are passed over without suspending; cur = 0
\* stands for a call of addStationOverlay that returned at once
RECURSIVE NextAwait(_, _, _)
NextAwait(rest, list, rendered) ==
  IF rest = <<>> THEN [suspended |-> FALSE, cur |-> 0, rest |-> <<>>]
  ELSE LET found == FindStations(<<Head(rest)>>, list)
       IN  IF found = <<>> THEN NextAwait(Tail(rest), list, rendered)
           ELSE [ suspended |-> TRUE,
                  cur  |-> IF addStationOverlayStarts(found[1], rendered) THEN Head(rest) ELSE 0,
                  rest |-> Tail(rest) ]

renderIndividualPoints(m, points, ep) ==
  LET next == NextAwait(points, m.stations, m.renderedStations)
  IN  IF next.suspended
        THEN [m EXCEPT !.pointLoops = @ \cup {[ep |-> ep, cur |-> next.cur, rest |-> next.rest]}]
        ELSE m

updateClusters(m, bounds) ==
  LET clusterData == getClusters(m.clusterIndex, bounds, m.currentZoom)
      m1 == [m EXCEPT !.clusterTasks = @ \cup {[ep |-> m.epoch, clusters |-> clusterData.clusters]},
                      !.selClusters = clusterData.clusters,
                      !.selStations = clusterData.points,
                      !.lastMode = "cluster"]
  IN  renderIndividualPoints(m1, SetToSeq(clusterData.points), m.epoch)

(***************************************************************************)
(* StationManager: the recompute                                           *)
(***************************************************************************)
\* the filter callback reaches the destructuring for a visible station
FilterThrows(list) ==
  \E i \in 1..Len(list) : list[i].visible /\ DestructuringThrows(list[i])

updateIndividualStations(m, bounds) ==
  IF FilterThrows(m.stations) THEN [m EXCEPT !.thrown = TRUE] ELSE
  LET candidateStations ==
        SelectSeq(m.stations, LAMBDA station : station.visible /\ isStationInBounds(station, bounds))
      maxStations == getMaxVisibleStations(m.deviceType, m.performanceTier)
      stationsToShow == prioritizeStations(candidateStations, maxStations, m.currentBounds)
      newVisibleStations == [i \in 1..Len(stationsToShow) |-> stationsToShow[i].id]
      m1 == [m EXCEPT !.selStations = SeqToSet(newVisibleStations),
                      !.selClusters = {},
                      !.lastMode = "individual"]
  IN  handleStationUpdates(m1, newVisibleStations)

\* the branch updateVisibleStations takes
UsesClustering(enabled, zoom) == enabled /\ shouldCluster(zoom)

\* updateVisibleStations without the clear: only the difference is applied
updateVisibleStationsNoClear(m) ==
  LET bounds == getCurrentBounds(m.mapView)
      m1 == [m EXCEPT !.currentBounds = bounds,
                      !.currentZoom = m.mapZoom,
                      !.epoch = @ + 1]
  IN  IF UsesClustering(m1.clusteringEnabled, m1.currentZoom)
        THEN updateClusters(m1, bounds)
        ELSE updateIndividualStations(m1, bounds)

\* updateVisibleStations clearing after it has started the new loads
updateVisibleStationsClearLast(m) ==
  LET bounds == getCurrentBounds(m.mapView)
      m1 == [m EXCEPT !.currentBounds = bounds,
                      !.currentZoom = m.mapZoom,
                      !.epoch = @ + 1]
  IN  clearAllMarkers(IF UsesClustering(m1.clusteringEnabled, m1.currentZoom)
                        THEN updateClusters(m1, bounds)
                        ELSE updateIndividualStations(m1, bounds))

updateVisibleStations(m) ==
  LET bounds == getCurrentBounds(m.mapView)
      m1 == [m EXCEPT !.currentBounds = bounds,
                      !.currentZoom = m.mapZoom,
                      !.epoch = @ + 1,
                      !.thrown = FALSE]
      m2 == clearAllMarkers(m1)
  IN  IF UsesClustering(m2.clusteringEnabled, m2.currentZoom)
        THEN updateClusters(m2, bounds)
        ELSE updateIndividualStations(m2, bounds)

\* setStations loading the list it replaces
setStationsStaleIndex(m, list) ==
  LET m1 == [m EXCEPT !.stations = list]
      m2 == IF m1.clusteringEnabled
              THEN [m1 EXCEPT !.clusterIndex = loadStations(m.stations)]
              ELSE m1
  IN  updateVisibleStations(m2)

setStations(m, list) ==
  LET m1 == [m EXCEPT !.stations = list]
      m2 == IF m1.clusteringEnabled
              THEN [m1 EXCEPT !.clusterIndex = loadStations(list)]
              ELSE m1
  IN  updateVisibleStations(m2)

forceUpdate(m) ==
  LET m1 == clearAllMarkers(m)
      m2 == IF m1.clusteringEnabled
              THEN [m1 EXCEPT !.clusterIndex = loadStations(m1.stations)]
              ELSE m1
  IN  updateVisibleStations(m2)

setClusteringEnabled(m, enabled) ==
  LET m1 == [m EXCEPT !.clusteringEnabled = enabled,
                      !.clusterIndex = IF enabled THEN loadStations(m.stations) ELSE {}]
  IN  forceUpdate(m1)

\* leaflet-map.tsx: the settings panel applies the clustering switch and
\* then forces an update, in one synchronous handler
handlePerformanceSettingsChange(m, enableClustering) ==
  LET m1 == setClusteringEnabled(m, enableClustering)
  IN  IF m1.thrown THEN m1 ELSE forceUpdate(m1)

\* debouncedUpdate without clearTimeout
debouncedUpdateNoClear(m) ==
  LET timer == [id |-> m.timerSeq + 1, delay |-> m.settings.debounceDelay]
  IN  [m EXCEPT !.timers = @ \cup {timer},
                !.timerSeq = @ + 1,
                !.updateTimer = timer.id]

debouncedUpdate(m) ==
  LET cleared == {t \in m.timers : t.id # m.updateTimer}
      timer == [id |-> m.timerSeq + 1, delay |-> m.settings.debounceDelay]
  IN  [m EXCEPT !.timers = (IF m.updateTimer # 0 THEN cleared ELSE @) \cup {timer},
                !.timerSeq = @ + 1,
                !.updateTimer = timer.id]

onMapMove(m) == debouncedUpdate(m)

\* StationManager.cleanup without the clearTimeout
managerCleanupKeepsTimer(m) ==
  LET m1 == [m EXCEPT !.lifecycle.listening = FALSE,
                      !.lifecycle.atCleanup = [timer |-> m.timers # {}, drain |-> m.drainPc]]
  IN  [clearAllMarkers(m1) EXCEPT !.clusterIndex = {}]

\* StationManager.cleanup: the listeners come off the map, the debounce timer
\* is cleared, every overlay and marker is removed, the clusterer is emptied
managerCleanup(m) ==
  LET m1 == [m EXCEPT !.lifecycle.listening = FALSE,
                      !.lifecycle.atCleanup = [timer |-> m.timers # {}, drain |-> m.drainPc],
                      !.timers = IF m.updateTimer # 0 THEN {t \in @ : t.id # m.updateTimer} ELSE @]
  IN  [clearAllMarkers(m1) EXCEPT !.clusterIndex = {}]

onMapZoom(m) == debouncedUpdate([m EXCEPT !.currentZoom = m.mapZoom])

(***************************************************************************)
(* PerformanceMonitor.  leaflet-map.tsx constructs it together with the    *)
(* manager, starts it and registers the warning callback, which forces     *)
(* clustering on for critical-memory and low-fps.  A measure name is the   *)
(* tuple of its parts between hyphens.                                     *)
(***************************************************************************)
WarningTypes == {"low-fps", "high-memory", "critical-memory", "slow-render", "too-many-stations"}

ZeroMetrics == [fps |-> 0, memoryUsage |-> 0, renderTime |-> 0, stationCount |-> 0]

constructedMonitor(nav) ==
  [ metrics      |-> ZeroMetrics,
    warnings     |-> {},
    deviceType   |-> IF isMobile(nav) THEN "mobile" ELSE "desktop",
    isMonitoring |-> TRUE,
    observing    |-> TRUE,
    callbacks    |-> TRUE ]

\* the monitor as its constructor leaves it: the observer is connected, no
\* interval runs and no callback is registered
unstartedMonitor(nav) ==
  [constructedMonitor(nav) EXCEPT !.isMonitoring = FALSE, !.callbacks = FALSE]

\* no report has been emitted yet
NoReport == [emitted |-> FALSE, metrics |-> ZeroMetrics, warnings |-> {}, recommendations |-> <<>>]

\* the warning callback switching clustering on whatever the warning
onWarningCallbackEveryType(m, type) == setClusteringEnabled(m, TRUE)

\* the callback registered with onWarning
onWarningCallback(m, type) ==
  IF type \in {"critical-memory", "low-fps"} THEN setClusteringEnabled(m, TRUE) ELSE m

\* a sample or count that is over its threshold
Breach(m, type) == [m EXCEPT !.notified[type].breaches = Min(@ + 1, 2)]

\* addWarning reporting whether or not the type is already among the warnings
addWarningEveryTime(m, type) ==
  LET m1 == [m EXCEPT !.monitor.warnings = @ \cup {type}]
  IN  IF m1.monitor.callbacks
        THEN onWarningCallback([m1 EXCEPT !.notified[type].calls = Min(@ + 1, 2),
                                          !.callsSinceClear[type] = Min(@ + 1, 2)], type)
        ELSE m1

addWarning(m, type) ==
  IF type \notin m.monitor.warnings
    THEN LET m1 == [m EXCEPT !.monitor.warnings = @ \cup {type}]
         IN  IF m1.monitor.callbacks
               THEN onWarningCallback([m1 EXCEPT !.notified[type].calls = Min(@ + 1, 2),
                                                 !.callsSinceClear[type] = Min(@ + 1, 2)], type)
               ELSE m1
    ELSE m

clearWarning(m, type) ==
  [m EXCEPT !.monitor.warnings = @ \ {type},
            !.notified[type] = [breaches |-> 0, calls |-> 0],
            !.callsSinceClear[type] = 0]

\* Math.round(1000 / delta) for a positive number of milliseconds
RoundedFPS(delta) == (2000 + delta) \div (2 * delta)

calculateFPS(m, delta) ==
  LET m1 == [m EXCEPT !.monitor.metrics.fps = RoundedFPS(delta)]
  IN  IF m1.monitor.metrics.fps < LOW_FPS_THRESHOLD
        THEN addWarning(Breach(m1, "low-fps"), "low-fps")
        ELSE m1

\* memoryMB is usedJSHeapSize in MB, rounded
checkMemoryUsage(m, memoryMB) ==
  LET m1 == [m EXCEPT !.monitor.metrics.memoryUsage = memoryMB]
      m2 == IF memoryMB > MEMORY_USAGE_MB
              THEN addWarning(Breach(m1, "high-memory"), "high-memory")
              ELSE m1
  IN  IF memoryMB > MAX_MEMORY_MB
        THEN addWarning(Breach(m2, "critical-memory"), "critical-memory")
        ELSE m2

checkRenderingPerformance(m) ==
  IF m.monitor.metrics.renderTime > MAX_RENDER_TIME_MS
    THEN addWarning(Breach(m, "slow-render"), "slow-render")
    ELSE m

updateStationCount(m, count) ==
  LET m1 == [m EXCEPT !.monitor.metrics.stationCount = count]
  IN  IF m1.monitor.deviceType = "mobile" /\ count > MOBILE_STATION_COUNT
        THEN addWarning(Breach(m1, "too-many-stations"), "too-many-stations")
        ELSE m1

reset(m) ==
  [m EXCEPT !.monitor.metrics = ZeroMetrics,
            !.monitor.warnings = {},
            !.notified = [type \in WarningTypes |-> [breaches |-> 0, calls |-> 0]]]

\* getRecommendations consulting the warnings instead of the metrics
getRecommendationsFromWarnings(monitorState) ==
  (IF "low-fps" \in monitorState.warnings THEN <<"fps">> ELSE <<>>)
  \o (IF "high-memory" \in monitorState.warnings THEN <<"memory">> ELSE <<>>)
  \o (IF "slow-render" \in monitorState.warnings THEN <<"rendering">> ELSE <<>>)
  \o (IF "too-many-stations" \in monitorState.warnings THEN <<"mobile-optimization">> ELSE <<>>)

\* the types of the recommendations, in the order they are pushed
getRecommendations(monitorState) ==
  (IF monitorState.metrics.fps < MIN_FPS THEN <<"fps">> ELSE <<>>)
  \o (IF monitorState.metrics.memoryUsage > MEMORY_USAGE_MB THEN <<"memory">> ELSE <<>>)
  \o (IF monitorState.metrics.renderTime > MAX_RENDER_TIME_MS THEN <<"rendering">> ELSE <<>>)
  \o (IF monitorState.deviceType = "mobile"
          /\ monitorState.metrics.stationCount > MOBILE_STATION_COUNT
        THEN <<"mobile-optimization">> ELSE <<>>)

\* the callback registered with onReport: the report becomes the component's
\* performanceStats, then the monitor is told the manager's rendered count
onReportCallback(m, report) ==
  updateStationCount([m EXCEPT !.performanceStats = report],
                     Cardinality(m.renderedStations))

generateReport(m) ==
  IF m.monitor.callbacks
    THEN onReportCallback(m, [ emitted         |-> TRUE,
                               metrics         |-> m.monitor.metrics,
                               warnings        |-> m.monitor.warnings,
                               recommendations |-> getRecommendations(m.monitor) ])
    ELSE m

startMonitoring(m) ==
  IF m.monitor.isMonitoring THEN m ELSE [m EXCEPT !.monitor.isMonitoring = TRUE]

\* the three intervals run exactly while isMonitoring; disconnect() also
\* empties the observer's buffer
stopMonitoring(m) ==
  IF ~m.monitor.isMonitoring THEN m
  ELSE [m EXCEPT !.monitor.isMonitoring = FALSE,
                 !.monitor.observing = FALSE,
                 !.perfEntries = <<>>]

cleanup(m) == [stopMonitoring(m) EXCEPT !.monitor.callbacks = FALSE]

\* name.startsWith('render-')
StartsWithRender(name) == Len(name) >= 2 /\ name[1] = "render"

\* endRenderMeasure after startRenderMeasure(name): the measure between the
\* two marks is appended to the performance timeline
endRenderMeasure(m, name, duration) ==
  IF m.monitor.observing
    THEN [m EXCEPT !.perfEntries = Append(@, [entryType |-> "measure", name |-> name,
                                               duration |-> duration])]
    ELSE m

\* the PerformanceObserver callback of initializePerformanceObserver, for
\* the entries of the list in their order
RECURSIVE observeEntries(_, _)
observeEntries(m, entries) ==
  IF entries = <<>> THEN m
  ELSE LET entry == Head(entries)
           m1 == IF entry.entryType = "measure" /\ StartsWithRender(entry.name)
                   THEN checkRenderingPerformance(
                          [m EXCEPT !.monitor.metrics.renderTime = entry.duration])
                   ELSE m
       IN  observeEntries(m1, Tail(entries))

\* leaflet-map.tsx: the effect that hands a new station list to the manager
stationUpdateEffect(m, list, duration) ==
  LET m1 == setStations(m, list)
  IN  IF m1.thrown THEN m1 ELSE endRenderMeasure(m1, <<"station", "update">>, duration)

(***************************************************************************)
(* Technical data points (lib/geo-utils.ts, leaflet-map.tsx).  A           *)
(* coordinate is a JavaScript number: NaN or a value (whole degrees here). *)
(***************************************************************************)
NaN == [nan |-> TRUE, v |-> 0]
Num(n) == [nan |-> FALSE, v |-> n]

\* !x for a number
Falsy(x) == x.nan \/ x.v = 0

\* x === 0 and x !== 0
StrictlyZero(x) == ~x.nan /\ x.v = 0

\* updateTechnicalMarkers skipping a record only when both coordinates are 0
skipsTechnicalMarkerBothZero(data) ==
  StrictlyZero(data.latitude) /\ StrictlyZero(data.longitude)

\* the test of updateTechnicalMarkers: "Skip if coordinates are invalid"
skipsTechnicalMarker(data) ==
  \/ Falsy(data.latitude)
  \/ Falsy(data.longitude)
  \/ StrictlyZero(data.latitude)
  \/ StrictlyZero(data.longitude)

\* the markers are cleared and added again, keyed by the id of the record;
\* the effect does nothing while the list is empty
updateTechnicalMarkers(m) ==
  IF Len(m.technical.data) = 0 THEN m
  ELSE [m EXCEPT !.technical.markers =
          {m.technical.data[i].id : i \in {j \in 1..Len(m.technical.data) :
                                             ~skipsTechnicalMarker(m.technical.data[j])}}]

\* the prop effect stores the list and the marker effect follows
setCurrentTechnicalData(m, list) ==
  updateTechnicalMarkers([m EXCEPT !.technical.data = list])

\* the test of findNearestStations on a technical record
searchesTechnical(tech) ==
  /\ ~Falsy(tech.latitude)
  /\ ~Falsy(tech.longitude)
  /\ ~StrictlyZero(tech.latitude)
  /\ ~StrictlyZero(tech.longitude)

\* Array.prototype.sort by distance: stable insertion into a sorted sequence
RECURSIVE SortPointsByDistance(_)
SortPointsByDistance(points) ==
  IF points = <<>> THEN <<>>
  ELSE LET sorted == SortPointsByDistance(SubSeq(points, 1, Len(points) - 1))
           last == points[Len(points)]
           before == SelectSeq(sorted, LAMBDA p : p.distance <= last.distance)
           after == SelectSeq(sorted, LAMBDA p : p.distance > last.distance)
       IN  before \o <<last>> \o after

\* km[i] is what calculateDistance returns for the i-th point pushed; the
\* coverage stations come first, then the technical records
findNearestStations(visibleStations, technicalData, limit, km) ==
  LET coverage == SelectSeq(visibleStations, LAMBDA station : station.bounds # <<>> /\ Len(station.bounds) >= 2)
      technicalPoints == SelectSeq(technicalData, searchesTechnical)
      allPoints ==
        [i \in 1..(Len(coverage) + Len(technicalPoints)) |->
           IF i <= Len(coverage)
             THEN [type |-> "coverage", id |-> coverage[i].id, distance |-> km[i]]
             ELSE [type |-> "technical", id |-> technicalPoints[i - Len(coverage)].id, distance |-> km[i]]]
      sorted == SortPointsByDistance(allPoints)
  IN  SubSeq(sorted, 1, Min(limit, Len(sorted)))

\* calculateAccessibilityScore without the clamp to 0..100
calculateAccessibilityScoreUnclamped(station, distance100) ==
  LET penalty == IF distance100 > 5000 THEN 50
                 ELSE IF distance100 > 2000 THEN 30
                 ELSE IF distance100 > 1000 THEN 15
                 ELSE IF distance100 > 500 THEN 5
                 ELSE 0
  IN  100 - penalty
        + (IF station.type = "technical" THEN 10 ELSE 0)
        + (IF station.height > 100 THEN 5 ELSE 0)
        + (IF station.maxERP > 1000 THEN 5 ELSE 0)

\* distance100 is the distance in hundredths of a kilometre: calculateDistance
\* rounds to two decimals.  A coverage station has no height and no maxERP:
\* undefined > 100 is false, as 0 > 100 is.  The score is an integer before
\* Math.round.
calculateAccessibilityScore(station, distance100) ==
  LET penalty == IF distance100 > 5000 THEN 50
                 ELSE IF distance100 > 2000 THEN 30
                 ELSE IF distance100 > 1000 THEN 15
                 ELSE IF distance100 > 500 THEN 5
                 ELSE 0
      score == 100 - penalty
                 + (IF station.type = "technical" THEN 10 ELSE 0)
                 + (IF station.height > 100 THEN 5 ELSE 0)
                 + (IF station.maxERP > 1000 THEN 5 ELSE 0)
  IN  Max(0, Min(100, score))

\* the geolocation callback searches the visible stations and the technical
\* records for the 5 nearest
getCurrentPositionSuccess(m, km) ==
  [m EXCEPT !.technical.nearest =
     findNearestStations(SelectSeq(m.stations, LAMBDA station : station.visible),
                         m.technical.data, 5, km)]

(***************************************************************************)
(* Initial state: the constructor has run on a map showing ViewA           *)
(***************************************************************************)
\* the state the constructor leaves, in the environment nav
constructed(nav) ==
  [ stations |-> <<>>,
    renderedStations |-> {},
    overlayRefs |-> {},
    clusterMarkerRefs |-> {},
    loadingQueue |-> <<>>,
    isProcessing |-> FALSE,
    settings |-> getRecommendedSettings(nav),
    deviceType |-> getDeviceType(nav),
    performanceTier |-> getPerformanceTier(nav),
    clusteringEnabled |-> getRecommendedSettings(nav).enableClustering,
    currentZoom |-> INITIAL_ZOOM,
    currentBounds |-> NullBounds,
    updateTimer |-> 0,
    clusterIndex |-> {},
    mapView |-> ViewA,
    mapZoom |-> MAP_INITIAL_ZOOM,
    mapOverlays |-> {},
    mapMarkers |-> {},
    imgLoading |-> {},
    timers |-> {},
    timerSeq |-> 0,
    drainPc |-> "idle",
    overlayTasks |-> <<>>,
    pointLoops |-> {},
    clusterTasks |-> {},
    epoch |-> 0,
    selStations |-> {},
    selClusters |-> {},
    lastMode |-> "none",
    skipped |-> {},
    lastOp |-> "constructor",
    thrown |-> FALSE,
    navigator |-> nav,
    monitor |-> constructedMonitor(nav),
    perfEntries |-> <<>>,
    notified |-> [type \in WarningTypes |-> [breaches |-> 0, calls |-> 0]],
    callsSinceClear |-> [type \in WarningTypes |-> 0],
    samples |-> 0,
    performanceStats |-> NoReport,
    tornDown |-> FALSE,
    reduction |-> [accumulated |-> initial, members |-> <<>>],
    technical |-> [data |-> <<>>, markers |-> {}, nearest |-> <<>>],
    scored |-> <<>>,
    queueLog |-> [on |-> FALSE, enqueued |-> {}, attempted |-> {}, loops |-> 0],
    lifecycle |-> [listening |-> TRUE, managerRef |-> TRUE, atCleanup |-> [timer |-> FALSE, drain |-> "idle"]] ]

\* every variable has its value in the record state
InitFrom(state) ==
  /\ stations = state.stations
  /\ renderedStations = state.renderedStations
  /\ overlayRefs = state.overlayRefs
  /\ clusterMarkerRefs = state.clusterMarkerRefs
  /\ loadingQueue = state.loadingQueue
  /\ isProcessing = state.isProcessing
  /\ settings = state.settings
  /\ deviceType = state.deviceType
  /\ performanceTier = state.performanceTier
  /\ clusteringEnabled = state.clusteringEnabled
  /\ currentZoom = state.currentZoom
  /\ currentBounds = state.currentBounds
  /\ updateTimer = state.updateTimer
  /\ clusterIndex = state.clusterIndex
  /\ mapView = state.mapView
  /\ mapZoom = state.mapZoom
  /\ mapOverlays = state.mapOverlays
  /\ mapMarkers = state.mapMarkers
  /\ imgLoading = state.imgLoading
  /\ timers = state.timers
  /\ timerSeq = state.timerSeq
  /\ drainPc = state.drainPc
  /\ overlayTasks = state.overlayTasks
  /\ pointLoops = state.pointLoops
  /\ clusterTasks = state.clusterTasks
  /\ epoch = state.epoch
  /\ selStations = state.selStations
  /\ selClusters = state.selClusters
  /\ lastMode = state.lastMode
  /\ skipped = state.skipped
  /\ lastOp = state.lastOp
  /\ thrown = state.thrown
  /\ navigator = state.navigator
  /\ monitor = state.monitor
  /\ perfEntries = state.perfEntries
  /\ notified = state.notified
  /\ callsSinceClear = state.callsSinceClear
  /\ samples = state.samples
  /\ performanceStats = state.performanceStats
  /\ tornDown = state.tornDown
  /\ reduction = state.reduction
  /\ technical = state.technical
  /\ scored = state.scored
  /\ queueLog = state.queueLog
  /\ lifecycle = state.lifecycle

InitWith(nav) == InitFrom(constructed(nav))

Init == \E nav \in Navigators : InitWith(nav)

(***************************************************************************)
(* Continuations of the async functions.  leaflet-map.tsx has imported     *)
(* leaflet before it constructs the manager, so `await import('leaflet')`  *)
(* waits for a settled promise: the continuation is a microtask of the     *)
(* task that made the call.  The calls of one batch resume in the order    *)
(* they were made.                                                         *)
(***************************************************************************)
\* the first suspended addStationOverlay of the batch resumes
overlayResume(m) ==
  LET task == Head(m.overlayTasks)
  IN  addStationOverlayFinish([m EXCEPT !.overlayTasks = Tail(@)], task.id, task.ep, task.via)

\* Promise.allSettled of the batch resolves
batchSettled(m) ==
  IF Len(m.loadingQueue) > 0 THEN [m EXCEPT !.drainPc = "delay"] ELSE DrainLoop(m)

clusterRenderResume(m, task) ==
  renderClustersFinish([m EXCEPT !.clusterTasks = @ \ {task}], task)

\* renderIndividualPoints resumes: the awaited addStationOverlay either
\* finishes creating its overlay, or had returned and the loop goes on
pointsResume(m, loop) ==
  LET m0 == [m EXCEPT !.pointLoops = @ \ {loop}]
  IN  IF loop.cur # 0
        THEN [addStationOverlayFinish(m0, loop.cur, loop.ep, "points")
                EXCEPT !.pointLoops = @ \cup {[loop EXCEPT !.cur = 0]}]
        ELSE renderIndividualPoints(m0, loop.rest, loop.ep)

\* one continuation of those pending in m
NextMicrotask(m) ==
  IF m.overlayTasks # <<>> THEN overlayResume(m)
  ELSE IF m.drainPc = "batch" THEN batchSettled(m)
  ELSE IF m.clusterTasks # {}
    THEN clusterRenderResume(m, CHOOSE task \in m.clusterTasks : TRUE)
  ELSE pointsResume(m, CHOOSE loop \in m.pointLoops : TRUE)

\* the microtask checkpoint at the end of a task: every continuation runs
RECURSIVE RunMicrotasks(_)
RunMicrotasks(m) ==
  IF NoMicrotask(m) THEN m
  ELSE CHOOSE after \in {RunMicrotasks(next) : next \in {NextMicrotask(m)}} : TRUE

OverlayResume ==
  /\ overlayTasks # <<>>
  /\ Becomes(overlayResume(M))

BatchSettled ==
  /\ drainPc = "batch"
  /\ overlayTasks = <<>>
  /\ Becomes(batchSettled(M))

ClusterRenderResume(task) ==
  /\ task \in clusterTasks
  /\ Becomes(clusterRenderResume(M, task))

PointsResume(loop) ==
  /\ loop \in pointLoops
  /\ Becomes(pointsResume(M, loop))

(***************************************************************************)
(* Tasks: calls of the manager's interface, map events, timers and image   *)
(* events.  A task starts when the microtasks of the one before it have    *)
(* run.  budget caps the number of updateVisibleStations invocations, a    *)
(* pending timer counted as the one it will make; timerBudget caps the     *)
(* number of timers.                                                       *)
(***************************************************************************)
CanCall(budget) == NoMicrotask(M) /\ epoch + Cardinality(timers) < budget

CanSchedule(timerBudget, budget) ==
  NoMicrotask(M) /\ timerSeq < timerBudget /\ epoch < budget

SetStations(list, budget) ==
  /\ CanCall(budget)
  /\ Becomes([setStations(M, list) EXCEPT !.lastOp = "setStations"])

ForceUpdate(budget) ==
  /\ CanCall(budget)
  /\ Becomes([forceUpdate(M) EXCEPT !.lastOp = "forceUpdate"])

SetClusteringEnabled(enabled, budget) ==
  /\ CanCall(budget)
  /\ Becomes([setClusteringEnabled(M, enabled) EXCEPT !.lastOp = "setClusteringEnabled"])

PerformanceSettingsChange(enableClustering, budget) ==
  /\ CanCall(budget)
  /\ Becomes([handlePerformanceSettingsChange(M, enableClustering)
                EXCEPT !.lastOp = "handlePerformanceSettingsChange"])

\* moveend / resize
MapMove(view, timerBudget, budget) ==
  /\ CanSchedule(timerBudget, budget)
  /\ lifecycle.listening
  /\ Becomes([onMapMove([M EXCEPT !.mapView = view]) EXCEPT !.lastOp = "onMapMove"])

\* zoomend
MapZoom(zoom, timerBudget, budget) ==
  /\ CanSchedule(timerBudget, budget)
  /\ lifecycle.listening
  /\ Becomes([onMapZoom([M EXCEPT !.mapZoom = zoom]) EXCEPT !.lastOp = "onMapZoom"])

\* leaflet-map.tsx: the station effect runs while the manager is referenced
StationsEffect(list, budget) ==
  /\ lifecycle.managerRef
  /\ SetStations(list, budget)

\* leaflet-map.tsx: the cleanup of the wiring effect cleans the manager up,
\* drops its reference, and cleans the monitor up
EffectCleanup ==
  /\ NoMicrotask(M)
  /\ lifecycle.managerRef
  /\ Becomes([cleanup(managerCleanup(M)) EXCEPT !.lifecycle.managerRef = FALSE,
                                                !.lastOp = "cleanup"])

\* the callback of debouncedUpdate's setTimeout
TimerFire(timer) ==
  /\ NoMicrotask(M)
  /\ timer \in timers
  /\ Becomes([updateVisibleStations([M EXCEPT !.timers = @ \ {timer}])
                EXCEPT !.lastOp = "debounceTimer"])

\* the LOAD_DELAY_MS timeout between two batches expires
DelayDone ==
  /\ NoMicrotask(M)
  /\ drainPc = "delay"
  /\ Becomes(DrainLoop(M))

\* the image of an overlay arrives: the load handler only logs
ImgLoad(overlay) ==
  /\ NoMicrotask(M)
  /\ overlay \in imgLoading
  /\ Becomes([M EXCEPT !.imgLoading = @ \ {overlay}, !.lastOp = "overlayLoad"])

\* the image of an overlay fails: the error handler removes by station id
ImgError(overlay) ==
  /\ NoMicrotask(M)
  /\ overlay \in imgLoading
  /\ Becomes(removeStationOverlay([M EXCEPT !.imgLoading = @ \ {overlay},
                                          !.lastOp = "overlayError"], overlay.id))

(***************************************************************************)
(* Tasks of the monitor: the sampling intervals, the calls of its          *)
(* interface and the delivery of performance entries                       *)
(***************************************************************************)
\* milliseconds between two calls of calculateFPS by the interval timer (a
\* tick one period after the previous one, and a tick on schedule 50 ms after
\* a tick that was held up), heap sizes in MB, station counts and measured
\* durations in ms on either side of the thresholds
FrameDeltas == {50, FPS_CHECK_INTERVAL_MS}
HeapSamples == {MEMORY_USAGE_MB, MEMORY_USAGE_MB + 1, MAX_MEMORY_MB + 1}
StationCounts == {MOBILE_STATION_COUNT, MOBILE_STATION_COUNT + 1}
Durations == {MAX_RENDER_TIME_MS, MAX_RENDER_TIME_MS + 1}

\* a task of the monitor starts when no continuation is pending; sampleBudget
\* caps their number
CanSample(sampleBudget) == NoMicrotask(M) /\ samples < sampleBudget

Sampled(m, op) == [m EXCEPT !.samples = @ + 1, !.lastOp = op]

CalculateFPS(delta, sampleBudget) ==
  /\ CanSample(sampleBudget)
  /\ monitor.isMonitoring
  /\ Becomes(Sampled(calculateFPS(M, delta), "calculateFPS"))

CheckMemoryUsage(memoryMB, sampleBudget) ==
  /\ CanSample(sampleBudget)
  /\ monitor.isMonitoring
  /\ Becomes(Sampled(checkMemoryUsage(M, memoryMB), "checkMemoryUsage"))

UpdateStationCount(count, sampleBudget) ==
  /\ CanSample(sampleBudget)
  /\ Becomes(Sampled(updateStationCount(M, count), "updateStationCount"))

ClearWarning(type, sampleBudget) ==
  /\ CanSample(sampleBudget)
  /\ Becomes(Sampled(clearWarning(M, type), "clearWarning"))

GenerateReport(sampleBudget) ==
  /\ CanSample(sampleBudget)
  /\ monitor.isMonitoring
  /\ Becomes(Sampled(generateReport(M), "generateReport"))

Reset(sampleBudget) ==
  /\ CanSample(sampleBudget)
  /\ Becomes(Sampled(reset(M), "reset"))

\* startRenderMeasure() ... endRenderMeasure() around an operation that
\* takes duration ms, under the default name render-frame
RenderFrameMeasure(duration, sampleBudget) ==
  /\ CanSample(sampleBudget)
  /\ Len(perfEntries) < MaxEntries
  /\ Becomes(Sampled(endRenderMeasure(M, <<"render", "frame">>, duration), "endRenderMeasure"))

StationUpdateEffect(list, duration, budget) ==
  /\ CanCall(budget)
  /\ Len(perfEntries) < MaxEntries
  /\ Becomes([stationUpdateEffect(M, list, duration) EXCEPT !.lastOp = "stationUpdateEffect"])

StartMonitoring(sampleBudget) ==
  /\ CanSample(sampleBudget)
  /\ Becomes(Sampled([startMonitoring(M) EXCEPT !.tornDown = FALSE], "startMonitoring"))

StopMonitoring(sampleBudget) ==
  /\ CanSample(sampleBudget)
  /\ Becomes(Sampled([stopMonitoring(M) EXCEPT !.tornDown = TRUE], "stopMonitoring"))

Cleanup(sampleBudget) ==
  /\ CanSample(sampleBudget)
  /\ Becomes(Sampled([cleanup(M) EXCEPT !.tornDown = TRUE], "cleanup"))

\* the browser hands the buffered entries to the observer
ObserverCallback ==
  /\ NoMicrotask(M)
  /\ monitor.observing
  /\ perfEntries # <<>>
  /\ Becomes([observeEntries([M EXCEPT !.perfEntries = <<>>], perfEntries)
                EXCEPT !.lastOp = "performanceObserver"])

\* Supercluster merges one more point into the cluster it is forming
Reduce(station) ==
  /\ Len(reduction.members) < MaxMembers
  /\ Becomes([M EXCEPT !.reduction = [accumulated |-> reduce(@.accumulated, map(station)),
                                       members     |-> Append(@.members, map(station))],
                       !.lastOp = "reduce"])

\* coordinates as parseFloat leaves them: 0 for a missing field, NaN for
\* text, or degrees
TechnicalCoordinates ==
  { <<Num(0), Num(0)>>, <<Num(0), Num(100)>>, <<Num(13), Num(0)>>,
    <<NaN, Num(100)>>, <<Num(13), NaN>>, <<Num(13), Num(100)>> }

TechnicalLists ==
  UNION { { [i \in 1..n |-> [id |-> i, latitude |-> at[i][1], longitude |-> at[i][2]]] :
              at \in [1..n -> TechnicalCoordinates] } :
          n \in 0..MaxTechnical }

Kilometres == {3, 8}

\* the technicalData prop changes
SetCurrentTechnicalData(list) ==
  /\ NoMicrotask(M)
  /\ Becomes([setCurrentTechnicalData(M, list) EXCEPT !.lastOp = "setCurrentTechnicalData"])

\* the browser reports the position of the user
GetCurrentPositionSuccess(km) ==
  /\ NoMicrotask(M)
  /\ Becomes([getCurrentPositionSuccess(M, km) EXCEPT !.lastOp = "getCurrentPosition"])

\* the stations the location panel scores: coverage areas, and towers by
\* height (m) and power (kW)
ScoredStations ==
  {[type |-> "coverage", height |-> 0, maxERP |-> 0]}
    \cup [type : {"technical"}, height : {100, 101}, maxERP : {1000, 1001}]

\* distances around the steps of the penalty, in hundredths of a kilometre
Distances100 == {0, 500, 501, 1000, 1001, 2000, 2001, 5000, 5001, 2000000}

\* the location panel shows the score of a station at a distance
ScoreStation(station, distance100) ==
  /\ NoMicrotask(M)
  /\ LET entry == [station  |-> station,
                   distance |-> distance100,
                   score    |-> calculateAccessibilityScore(station, distance100)]
     IN  Becomes([M EXCEPT !.scored = IF Len(@) < 2 THEN Append(@, entry) ELSE <<@[2], entry>>,
                           !.lastOp = "calculateAccessibilityScore"])

(***************************************************************************)
(* Specifications                                                          *)
(***************************************************************************)
\* every call and event, on either device
Next ==
  \/ \E list \in StationLists : SetStations(list, MaxRecomputes)
  \/ ForceUpdate(MaxRecomputes)
  \/ \E enabled \in BOOLEAN : SetClusteringEnabled(enabled, MaxRecomputes)
  \/ \E enabled \in BOOLEAN : PerformanceSettingsChange(enabled, MaxRecomputes)
  \/ \E view \in Views : MapMove(view, MaxTimers, MaxRecomputes)
  \/ \E zoom \in ZoomLevels : MapZoom(zoom, MaxTimers, MaxRecomputes)
  \/ \E timer \in timers : TimerFire(timer)
  \/ OverlayResume
  \/ BatchSettled
  \/ DelayDone
  \/ \E task \in clusterTasks : ClusterRenderResume(task)
  \/ \E loop \in pointLoops : PointsResume(loop)
  \/ \E overlay \in imgLoading : ImgLoad(overlay)
  \/ \E overlay \in imgLoading : ImgError(overlay)

Spec == Init /\ [][Next]_vars

\* a low-end phone (cap LOW_END) and a station list longer than the cap
InitCap == InitWith(IPhoneLowNav)

NextCap ==
  \/ \E list \in StationListsCap : SetStations(list, MaxRecomputesCap)
  \/ PerformanceSettingsChange(FALSE, MaxRecomputesCap)
  \/ OverlayResume
  \/ BatchSettled
  \/ DelayDone
  \/ \E task \in clusterTasks : ClusterRenderResume(task)
  \/ \E overlay \in imgLoading : ImgLoad(overlay)
  \/ \E overlay \in imgLoading : ImgError(overlay)

SpecCap == InitCap /\ [][NextCap]_vars

\* the page is loaded in any environment: the profiler is consulted when the
\* manager is constructed
Construct(nav) ==
  /\ nav \in AllNavigators
  /\ Becomes(constructed(nav))

InitProfile == \E nav \in AllNavigators : InitWith(nav)

NextProfile == \E nav \in AllNavigators : Construct(nav)

SpecProfile == InitProfile /\ [][NextProfile]_vars

\* a desktop (individual rendering) that is handed malformed station lists
InitMalformed == InitWith(DesktopNav)

NextMalformed ==
  \/ \E list \in StationListsMalformed : SetStations(list, MaxRecomputesMalformed)
  \/ \E view \in Views : MapMove(view, MaxTimers, MaxRecomputesMalformed)
  \/ \E timer \in timers : TimerFire(timer)
  \/ OverlayResume
  \/ BatchSettled
  \/ \E overlay \in imgLoading : ImgLoad(overlay)
  \/ \E overlay \in imgLoading : ImgError(overlay)

SpecMalformed == InitMalformed /\ [][NextMalformed]_vars

\* the monitor of a map view whose manager has no stations yet, on either
\* device
InitMonitor == \E nav \in Navigators : InitWith(nav)

NextMonitor ==
  \/ \E delta \in FrameDeltas : CalculateFPS(delta, MaxSamples)
  \/ \E memoryMB \in HeapSamples : CheckMemoryUsage(memoryMB, MaxSamples)
  \/ \E count \in StationCounts : UpdateStationCount(count, MaxSamples)
  \/ \E type \in WarningTypes : ClearWarning(type, MaxSamples)
  \/ Reset(MaxSamples)
  \/ GenerateReport(MaxSamples)
  \/ \E duration \in Durations : RenderFrameMeasure(duration, MaxSamples)
  \/ ObserverCallback
  \/ \E task \in clusterTasks : ClusterRenderResume(task)

SpecMonitor == InitMonitor /\ [][NextMonitor]_vars

\* the life cycle of a monitor, started with its callbacks by the map view
\* or only constructed
InitTeardown ==
  \E nav \in Navigators :
    \E monitorState \in {constructedMonitor(nav), unstartedMonitor(nav)} :
      InitFrom([constructed(nav) EXCEPT !.monitor = monitorState])

NextTeardown ==
  \/ StartMonitoring(MaxSamples)
  \/ StopMonitoring(MaxSamples)
  \/ Cleanup(MaxSamples)
  \/ \E delta \in FrameDeltas : CalculateFPS(delta, MaxSamples)
  \/ \E memoryMB \in HeapSamples : CheckMemoryUsage(memoryMB, MaxSamples)
  \/ GenerateReport(MaxSamples)
  \/ \E duration \in Durations : RenderFrameMeasure(duration, MaxSamples)
  \/ ObserverCallback
  \/ \E task \in clusterTasks : ClusterRenderResume(task)

SpecTeardown == InitTeardown /\ [][NextTeardown]_vars

\* station lists, well-formed or not, arrive while clustering is switched on
\* and off
StationListsReload == StationLists \cup StationListsMalformed

InitReload == InitWith(DesktopNav)

NextReload ==
  \/ \E list \in StationListsReload : SetStations(list, MaxRecomputesReload)
  \/ ForceUpdate(MaxRecomputesReload)
  \/ \E enabled \in BOOLEAN : SetClusteringEnabled(enabled, MaxRecomputesReload)
  \/ OverlayResume
  \/ BatchSettled
  \/ \E task \in clusterTasks : ClusterRenderResume(task)
  \/ \E loop \in pointLoops : PointsResume(loop)
  \/ \E overlay \in imgLoading : ImgLoad(overlay)
  \/ \E overlay \in imgLoading : ImgError(overlay)

SpecReload == InitReload /\ [][NextReload]_vars

\* technical records of any coordinates are shown and searched
InitTechnical == InitWith(DesktopNav)

NextTechnical ==
  \/ \E list \in TechnicalLists : SetCurrentTechnicalData(list)
  \/ \E km \in [1..(Len(stations) + MaxTechnical) -> Kilometres] : GetCurrentPositionSuccess(km)

SpecTechnical == InitTechnical /\ [][NextTechnical]_vars

\* stations at any distance are scored
InitScore == InitWith(DesktopNav)

NextScore ==
  \E station \in ScoredStations, distance100 \in Distances100 : ScoreStation(station, distance100)

SpecScore == InitScore /\ [][NextScore]_vars

\* a desktop (no clustering, cap above the list) receives lists longer than
\* a batch, also while a drain waits between two batches
InitOverlap == InitWith(DesktopNav)

NextOverlap ==
  \/ \E list \in StationListsCap : SetStations(list, MaxRecomputesOverlap)
  \/ OverlayResume
  \/ BatchSettled
  \/ DelayDone
  \/ \E overlay \in imgLoading : ImgLoad(overlay)
  \/ \E overlay \in imgLoading : ImgError(overlay)

SpecOverlap == InitOverlap /\ [][NextOverlap]_vars

\* the page is cleaned up on a desktop and on a low-end phone, possibly with
\* a debounce timer pending and a drain waiting between two batches
InitCleanup == \E nav \in Navigators : InitWith(nav)

NextCleanup ==
  \/ \E list \in StationListsCap : StationsEffect(list, MaxRecomputesOverlap)
  \/ \E view \in Views : MapMove(view, MaxTimers, MaxRecomputesOverlap)
  \/ EffectCleanup
  \/ \E timer \in timers : TimerFire(timer)
  \/ OverlayResume
  \/ BatchSettled
  \/ DelayDone
  \/ \E task \in clusterTasks : ClusterRenderResume(task)
  \/ \E overlay \in imgLoading : ImgLoad(overlay)
  \/ \E overlay \in imgLoading : ImgError(overlay)

SpecCleanup == InitCleanup /\ [][NextCleanup]_vars

\* the low-end phone again, the queue entries logged, with every
\* continuation and the batch delay certain to run: promises settle and
\* timers fire
InitDrain == InitFrom([constructed(IPhoneLowNav) EXCEPT !.queueLog.on = TRUE])

SpecDrain ==
  /\ InitDrain
  /\ [][NextCap]_vars
  /\ WF_vars(OverlayResume)
  /\ WF_vars(BatchSettled)
  /\ WF_vars(DelayDone)
  /\ WF_vars(\E task \in clusterTasks : ClusterRenderResume(task))

\* a low-end phone zooms in to the deepest zoom that still clusters, where
\* every station of the list is a point of its own
SpreadZoom == DISABLE_CLUSTERING_AT_ZOOM - 1

StationListsSpread ==
  { StationList(NumStationsSpread, (1..NumStationsSpread) \ hidden) : hidden \in {{}, {1}} }

InitSpread == InitWith(IPhoneLowNav)

NextSpread ==
  \/ \E list \in StationListsSpread : SetStations(list, MaxRecomputesCap)
  \/ MapZoom(SpreadZoom, MaxTimers, MaxRecomputesCap)
  \/ \E timer \in timers : TimerFire(timer)
  \/ \E task \in clusterTasks : ClusterRenderResume(task)
  \/ \E loop \in pointLoops : PointsResume(loop)
  \/ \E overlay \in imgLoading : ImgLoad(overlay)
  \/ \E overlay \in imgLoading : ImgError(overlay)

SpecSpread == InitSpread /\ [][NextSpread]_vars

\* the clusterer forms one cluster out of any stations
InitReduce == InitWith(DesktopNav)

NextReduce == \E station \in NamedStations : Reduce(station)

SpecReduce == InitReduce /\ [][NextReduce]_vars

\* station lists arrive on a desktop while render times are measured
InitRender == InitWith(DesktopNav)

NextRender ==
  \/ \E list \in StationLists, duration \in Durations :
       StationUpdateEffect(list, duration, MaxRecomputesRender)
  \/ \E duration \in Durations : RenderFrameMeasure(duration, MaxSamples)
  \/ ObserverCallback
  \/ OverlayResume
  \/ BatchSettled
  \/ \E overlay \in imgLoading : ImgLoad(overlay)
  \/ \E overlay \in imgLoading : ImgError(overlay)

SpecRender == InitRender /\ [][NextRender]_vars

(***************************************************************************)
(* Properties                                                              *)
(***************************************************************************)
OverlayIds(m) == {o.id : o \in m.mapOverlays}
MarkerIds(m) == {k.id : k \in m.mapMarkers}
HasImage(id) == ImageUrlOf(id) # ""
Unreliable == {id \in 1..Max(NumStations, NumStationsCap) : ImageUrlOf(id) = "unreliable.png"}

\* the ids of the visible stations of the list whose centroid is in bounds
VisibleInBounds(list, bounds) ==
  {list[i].id : i \in {j \in 1..Len(list) : list[j].visible /\ isStationInBounds(list[j], bounds)}}

\* C1: every image overlay and every cluster marker on the map is the handle
\* the manager stores under its id in overlayRefs or clusterMarkerRefs, so no
\* layer is on the map unreferenced.
C1_LayersAreReferenced ==
  /\ mapOverlays \subseteq overlayRefs
  /\ mapMarkers \subseteq clusterMarkerRefs

\* C2: once all asynchronous work has completed, the overlays and cluster
\* markers on the map are those the most recent updateVisibleStations
\* selected: none left from an earlier recompute or clustering policy.
C2_MapShowsLatestSelection ==
  Quiescent =>
    /\ OverlayIds(M) \subseteq selStations
    /\ MarkerIds(M) \subseteq selClusters
    /\ selClusters \subseteq MarkerIds(M)

\* the candidates of rank below cap: a candidate ranks after those closer to
\* the centre of bounds and after those as close that precede it in the list
ClosestIds(list, cap, bounds) ==
  LET cand == {j \in 1..Len(list) : list[j].visible /\ isStationInBounds(list[j], bounds)}
      ahead(i) == {j \in cand :
                     \/ DistanceFromCenter(list[j], bounds) < DistanceFromCenter(list[i], bounds)
                     \/ /\ DistanceFromCenter(list[j], bounds) = DistanceFromCenter(list[i], bounds)
                        /\ j < i}
  IN  {list[i].id : i \in {k \in cand : Cardinality(ahead(k)) < cap}}

\* the latest recompute rendered individually, with more candidates than the
\* device cap, and its loads are complete
OverCapSettled ==
  /\ Quiescent
  /\ lastMode = "individual"
  /\ Cardinality(VisibleInBounds(stations, currentBounds))
       > getMaxVisibleStations(deviceType, performanceTier)

\* C3 as stated: over the cap, the rendered set has exactly cap members, the
\* cap candidates closest to the centre of the buffered viewport, ties by
\* list order (a station whose image failed to load aside).
C3_RenderedIsClosestCap ==
  OverCapSettled =>
    LET closest == ClosestIds(stations, getMaxVisibleStations(deviceType, performanceTier),
                              currentBounds)
    IN  /\ renderedStations \subseteq closest
        /\ (closest \ renderedStations) \subseteq Unreliable

\* C3 amended: over the cap, the rendered set is made of those of the cap
\* closest candidates that have an imageUrl (a station whose image failed to
\* load aside), so it has at most cap members.
C3_RenderedIsClosestCapWithImage ==
  OverCapSettled =>
    LET cap == getMaxVisibleStations(deviceType, performanceTier)
        closest == {id \in ClosestIds(stations, cap, currentBounds) : HasImage(id)}
    IN  /\ renderedStations \subseteq closest
        /\ (closest \ renderedStations) \subseteq Unreliable
        /\ Cardinality(renderedStations) <= cap

\* the over-cap case with a selected station that has no imageUrl
C3_Witness ==
  /\ OverCapSettled
  /\ renderedStations # {}
  /\ \E id \in ClosestIds(stations, getMaxVisibleStations(deviceType, performanceTier),
                          currentBounds) : ~HasImage(id)
  /\ \E id \in VisibleInBounds(stations, currentBounds) :
       HasImage(id) /\ id \notin Unreliable /\ id \notin renderedStations

\* the latest recompute rendered individually, the visible stations are at
\* most the device cap, and its loads are complete
UnderCapSettled ==
  /\ Quiescent
  /\ lastMode = "individual"
  /\ Cardinality({i \in 1..Len(stations) : stations[i].visible})
       <= getMaxVisibleStations(deviceType, performanceTier)

\* C4 as stated: with at most cap visible stations, the rendered set is the
\* set of visible stations whose centroid is in the buffered viewport (a
\* station whose image failed to load aside).
C4_RenderedIsVisibleInViewport ==
  UnderCapSettled =>
    LET expected == VisibleInBounds(stations, currentBounds)
    IN  /\ renderedStations \subseteq expected
        /\ (expected \ renderedStations) \subseteq Unreliable

\* C4 amended: with at most cap visible stations, individual rendering
\* renders the visible stations in the buffered viewport that have an
\* imageUrl (a station whose image failed to load aside), and no other.
C4_RenderedIsVisibleInViewportWithImage ==
  UnderCapSettled =>
    LET expected == {id \in VisibleInBounds(stations, currentBounds) : HasImage(id)}
    IN  /\ renderedStations \subseteq expected
        /\ (expected \ renderedStations) \subseteq Unreliable

\* a settle that rendered the stations in the buffered viewport that have an
\* image and left the one without imageUrl unrendered
C4_Witness ==
  /\ UnderCapSettled
  /\ {1, 4} \subseteq renderedStations
  /\ \E i \in 1..Len(stations) :
       /\ stations[i].visible
       /\ ~HasImage(stations[i].id)
       /\ isStationInBounds(stations[i], currentBounds)
       /\ stations[i].id \notin renderedStations

\* the number of layers on the map
Layers(m) == Cardinality(m.mapOverlays) + Cardinality(m.mapMarkers)

\* C5: updateVisibleStations called twice in succession leaves, once the
\* continuations have run, the rendered ids and the layers on the map that
\* one call leaves: the second call adds and removes nothing on balance.
C5_SecondCallChangesNothing ==
  NoMicrotask(M) =>
    \A once \in {RunMicrotasks(updateVisibleStations(M))} :
      \A twice \in {RunMicrotasks(updateVisibleStations(updateVisibleStations(M)))} :
        /\ once.renderedStations = twice.renderedStations
        /\ Layers(once) = Layers(twice)

\* the state once the continuations pending in it have run
AfterMicrotasks == RunMicrotasks(M)

\* a step that is the settle of a pan: the debounce timer fires after a
\* moveend, in individual rendering, with every selected station that has an
\* image rendered and the same stations selected after as before
SettleOfPanInsideBuffer ==
  /\ lastOp = "onMapMove"
  /\ lastOp' = "debounceTimer"
  /\ epoch' = epoch + 1
  /\ lastMode = "individual"
  /\ lastMode' = "individual"
  /\ selStations' = selStations
  /\ drainPc = "idle"
  /\ renderedStations = {id \in selStations : HasImage(id)}
  /\ overlayRefs = mapOverlays

C7_OverlaysComeFromQueue ==
  \A o \in mapOverlays : o.via = "queue"

\* C7 amended: a station overlay is rendered from the loading queue, or, in
\* clustering mode, by renderIndividualPoints for a station left unclustered,
\* which does not use the queue.
C7_OverlaysComeFromQueueOrPoints ==
  /\ \A o \in mapOverlays \cup overlayRefs : o.via \in {"queue", "points"}
  /\ \A i \in 1..Len(overlayTasks) : overlayTasks[i].via = "queue"
  /\ \A loop \in pointLoops : loop.ep = epoch => lastMode = "cluster"
  /\ lastMode = "individual" =>
       \A o \in overlayRefs : o.ep = epoch => o.via = "queue"

\* an unclustered station rendered in clustering mode
C7_Witness ==
  /\ lastMode = "cluster"
  /\ \E o \in mapOverlays : o.via = "points" /\ o.ep = epoch

\* C8: a move or zoom event runs no recompute and touches no layer: it
\* leaves exactly one pending timer, the one it schedules with the delay of
\* the device's tier, whatever timer was pending before.
C8_EventsOnlyScheduleOneTimer ==
  [][timerSeq' > timerSeq =>
       /\ epoch' = epoch
       /\ mapOverlays' = mapOverlays
       /\ mapMarkers' = mapMarkers
       /\ overlayTasks' = overlayTasks
       /\ pointLoops' = pointLoops
       /\ clusterTasks' = clusterTasks
       /\ loadingQueue' = loadingQueue
       /\ timers' = {[id |-> timerSeq',
                      delay |-> IF performanceTier = "low" THEN 300 ELSE 150]}]_vars

\* a burst of two events after the stations arrived, then the one recompute
C8_Witness ==
  /\ stations # <<>>
  /\ timerSeq = 2
  /\ epoch = 2
  /\ timers = {}
  /\ lastOp = "debounceTimer"

\* the stations for which the invocation m.epoch has a load pending
PendingLoadIds(m) ==
  {m.overlayTasks[i].id : i \in {j \in 1..Len(m.overlayTasks) : m.overlayTasks[j].ep = m.epoch}}
    \cup {m.loadingQueue[i].station.id :
            i \in {j \in 1..Len(m.loadingQueue) : m.loadingQueue[j].ep = m.epoch}}
    \cup UNION {({loop.cur} \cup SeqToSet(loop.rest)) :
                  loop \in {l \in m.pointLoops : l.ep = m.epoch}}

\* C9: when an updateVisibleStations invocation has run, every overlay and
\* marker the manager referenced is off the map and none of the invocation's
\* overlays is on it yet: each selected station with an image is still to
\* load.
C9_RemovalsBeforeLoads ==
  [][epoch' > epoch =>
       /\ mapOverlays' = mapOverlays \ overlayRefs
       /\ mapMarkers' = mapMarkers \ clusterMarkerRefs
       /\ overlayRefs' = {}
       /\ clusterMarkerRefs' = {}
       /\ renderedStations' = {}
       /\ \A id \in selStations' : HasImage(id) => id \in PendingLoadIds(M)']_vars

\* the second invocation has removed the overlay of station 2, whose image
\* is still on its way, and the new load of station 2 has not resumed
C9_Witness ==
  /\ epoch = 2
  /\ imgLoading = {[id |-> 2, ep |-> 1, via |-> "queue"]}
  /\ [id |-> 2, ep |-> 1, via |-> "queue"] \notin mapOverlays
  /\ \E i \in 1..Len(overlayTasks) : overlayTasks[i].id = 2 /\ overlayTasks[i].ep = 2

\* C10: a load that was issued stays pending until it resumes and puts its
\* overlay on the map; an invocation leaves on the queue only its own
\* entries; an entry discarded from the queue is never issued.
C10_BatchesCompleteQueueTruncated ==
  /\ [][\A i \in 1..Len(overlayTasks) :
          \/ \E j \in 1..Len(overlayTasks') : overlayTasks'[j] = overlayTasks[i]
          \/ overlayTasks[i] \in mapOverlays']_vars
  /\ [](\A i \in 1..Len(loadingQueue) : loadingQueue[i].ep = epoch)
  /\ [](\A e \in skipped :
          /\ \A i \in 1..Len(overlayTasks) :
               ~(overlayTasks[i].id = e.id /\ overlayTasks[i].ep = e.ep)
          /\ \A o \in mapOverlays : ~(o.id = e.id /\ o.ep = e.ep))

\* a batch of a superseded invocation is in flight and entries it had not
\* issued were discarded
C10_Witness ==
  /\ skipped # {}
  /\ \E i \in 1..Len(overlayTasks) : overlayTasks[i].ep < epoch
  /\ Len(loadingQueue) > BATCH_SIZE

\* the ids of the entries of a part of the loading queue for which
\* addStationOverlay goes on to create an overlay, in queue order
StartedIds(entries, rendered) ==
  LET started == SelectSeq(entries, LAMBDA e : addStationOverlayStarts(e.station, rendered))
  IN  [i \in 1..Len(started) |-> started[i].station.id]

\* C11: the loading queue is drained from its head in batches of at most
\* BATCH_SIZE stations; a batch that settles with stations left on the queue
\* is followed by the delay and only then by the next batch; an image that
\* fails touches the overlay of its own station only and leaves the queue
\* and the drain loop as they are.
C11_QueueDrainsInBatches ==
  /\ [](Len(overlayTasks) <= BATCH_SIZE)
  /\ [][(drainPc = "delay" /\ drainPc' = "batch") =>
          LET n == Min(BATCH_SIZE, Len(loadingQueue))
          IN  /\ loadingQueue' = SubSeq(loadingQueue, n + 1, Len(loadingQueue))
              /\ [i \in 1..Len(overlayTasks') |-> overlayTasks'[i].id]
                   = StartedIds(SubSeq(loadingQueue, 1, n), renderedStations)]_vars
  /\ [][(drainPc = "batch" /\ drainPc' # "batch") =>
          /\ overlayTasks = <<>>
          /\ overlayTasks' = <<>>
          /\ loadingQueue' = loadingQueue
          /\ drainPc' = IF loadingQueue # <<>> THEN "delay" ELSE "idle"]_vars
  /\ [][(imgLoading' # imgLoading /\ imgLoading' \subseteq imgLoading) =>
          /\ loadingQueue' = loadingQueue
          /\ overlayTasks' = overlayTasks
          /\ drainPc' = drainPc
          /\ \A o \in mapOverlays \ mapOverlays' : \E l \in imgLoading \ imgLoading' : o.id = l.id
          /\ \A id \in renderedStations \ renderedStations' :
               \E l \in imgLoading \ imgLoading' : id = l.id]_vars

\* two batches were drained; the image of station 2, of the first batch,
\* failed; the other stations of that batch that have an image and stations
\* of the second batch are rendered
C11_Witness ==
  /\ OverCapSettled
  /\ LET first == ClosestIds(stations, BATCH_SIZE, currentBounds)
     IN  /\ 2 \in first
         /\ 2 \notin renderedStations
         /\ {id \in first : HasImage(id)} \ {2} \subseteq renderedStations
         /\ renderedStations \ first # {}

\* C12: when the image of an overlay fails, the overlay is off the map, its
\* station id is out of the rendered set and of the handle table, and the
\* handler starts no new load of the station.
C12_FailedOverlayEvicted ==
  [][(lastOp' = "overlayError" /\ imgLoading' # imgLoading /\ imgLoading' \subseteq imgLoading) =>
       /\ \A o \in imgLoading \ imgLoading' :
            /\ o \notin mapOverlays'
            /\ o.id \notin renderedStations'
            /\ \A r \in overlayRefs' : r.id # o.id
       /\ loadingQueue' = loadingQueue
       /\ overlayTasks' = overlayTasks
       /\ pointLoops' = pointLoops]_vars

\* the stations of the list with two corners of two numbers each
WellFormed(station) ==
  /\ station.bounds # <<>>
  /\ Len(station.bounds) >= 2
  /\ ~CentroidIsNaN(station)

\* C13: whatever the bounds of the stations of the list, no call of the
\* manager ends in an exception, and once the loads are complete the
\* well-formed visible stations in the buffered viewport that have an image
\* are rendered (a station whose image failed to load aside).
C13_MalformedStationsSkipped ==
  /\ ~thrown
  /\ (Quiescent /\ stations # <<>>) =>
       \A i \in 1..Len(stations) :
         ( /\ stations[i].visible
           /\ WellFormed(stations[i])
           /\ isStationInBounds(stations[i], currentBounds)
           /\ HasImage(stations[i].id)
           /\ stations[i].id \notin Unreliable )
         => stations[i].id \in renderedStations

\* C14: a recompute takes the clustering branch exactly when clustering is
\* enabled and the zoom of the map is below DISABLE_CLUSTERING_AT_ZOOM,
\* whatever the stations: then it starts a cluster render and queues no
\* station; otherwise it starts no cluster render and no point loop and
\* selects no cluster.
C14_ClusteringIffEnabledAndBelowThreshold ==
  [][epoch' > epoch =>
       IF clusteringEnabled' /\ mapZoom' < DISABLE_CLUSTERING_AT_ZOOM
         THEN /\ lastMode' = "cluster"
              /\ \E task \in clusterTasks' : task.ep = epoch'
              /\ \A i \in 1..Len(loadingQueue') : loadingQueue'[i].ep # epoch'
              /\ \A i \in 1..Len(overlayTasks') : overlayTasks'[i].ep # epoch'
         ELSE /\ lastMode' = "individual"
              /\ selClusters' = {}
              /\ \A task \in clusterTasks' : task.ep # epoch'
              /\ \A loop \in pointLoops' : loop.ep # epoch']_vars

\* clustering is enabled and the map is at the threshold zoom: the latest
\* recompute rendered station overlays and no marker
C14_Witness ==
  /\ clusteringEnabled
  /\ mapZoom = DISABLE_CLUSTERING_AT_ZOOM
  /\ currentZoom = DISABLE_CLUSTERING_AT_ZOOM
  /\ lastMode = "individual"
  /\ Quiescent
  /\ Cardinality(renderedStations) >= MIN_POINTS_TO_CLUSTER
  /\ mapMarkers = {}

(***************************************************************************)
(* Device profiler (SpecProfile).  Every state is a manager constructed in *)
(* the environment `navigator`.                                            *)
(***************************************************************************)
\* the values the profiler grades: an unreported figure is 0 and is replaced
\* by 8 cores and 4 GB
ReportsHardware == navigator.present /\ navigator.hardwareConcurrency # 0 /\ navigator.deviceMemory4 # 0

GradedCores == IF navigator.hardwareConcurrency = 0 THEN 8 ELSE navigator.hardwareConcurrency

GradedMemory4 == IF navigator.deviceMemory4 = 0 THEN 16 ELSE navigator.deviceMemory4

MobileUserAgent == navigator.present /\ navigator.ua \cap MobileTokens # {}

\* C15 (as stated): the tier is low if cores <= 2 or memory <= 1 GB, otherwise
\* medium if cores <= 4 or memory <= 2 GB or the connection is slow (slow-2g,
\* 2g or 3g), otherwise high
C15_TierSlowNetworkIsMedium ==
  ReportsHardware =>
    performanceTier =
      IF navigator.hardwareConcurrency <= 2 \/ navigator.deviceMemory4 <= 4 THEN "low"
      ELSE IF \/ navigator.hardwareConcurrency <= 4
              \/ navigator.deviceMemory4 <= 8
              \/ navigator.effectiveType \in {"slow-2g", "2g", "3g"} THEN "medium"
      ELSE "high"

\* C15 (amended): the tier is low if cores <= 2 or memory <= 1 GB, otherwise
\* medium if cores <= 4 or memory <= 2 GB, otherwise low on a slow-2g or 2g
\* connection, medium on a 3g connection and high on any other; an unreported
\* core count is graded as 8, an unreported memory as 4 GB, and without a
\* navigator the tier is high
C15_TierByHardwareThenNetwork ==
  /\ ~navigator.present => performanceTier = "high"
  /\ navigator.present =>
       /\ (GradedCores <= 2 \/ GradedMemory4 <= 4) => performanceTier = "low"
       /\ (GradedCores > 2 /\ GradedMemory4 > 4 /\ (GradedCores <= 4 \/ GradedMemory4 <= 8))
            => performanceTier = "medium"
       /\ (GradedCores > 4 /\ GradedMemory4 > 8) =>
            /\ navigator.effectiveType \in {"slow-2g", "2g"} => performanceTier = "low"
            /\ navigator.effectiveType = "3g" => performanceTier = "medium"
            /\ navigator.effectiveType \notin {"slow-2g", "2g", "3g"} => performanceTier = "high"

C15_Witness ==
  /\ ReportsHardware
  /\ navigator.hardwareConcurrency > 4
  /\ navigator.deviceMemory4 > 8
  /\ navigator.effectiveType = "2g"
  /\ performanceTier = "low"

\* C16 (as stated): on everything but a high-tier desktop clustering and
\* progressive loading are both enabled; the debounce delay is within 150..300
\* ms and the compression quality within 0.3..0.5
C16_EnabledUnlessHighTierDesktop ==
  /\ ~(deviceType = "desktop" /\ performanceTier = "high")
       => settings.enableClustering /\ settings.enableProgressiveLoading
  /\ settings.debounceDelay \in 150..300
  /\ settings.compressionQuality \in 3..5

\* C16 (amended): clustering is enabled exactly when the user agent is a
\* mobile one or the tier is below high, progressive loading exactly when the
\* user agent is a mobile one or the tier is low; the debounce delay is 300 ms
\* on the low tier and 150 ms otherwise, the compression quality 0.3 on the
\* low tier and 0.5 otherwise
C16_EnabledByUserAgentAndTier ==
  /\ settings.enableClustering <=> (MobileUserAgent \/ performanceTier # "high")
  /\ settings.enableProgressiveLoading <=> (MobileUserAgent \/ performanceTier = "low")
  /\ settings.debounceDelay = (IF performanceTier = "low" THEN 300 ELSE 150)
  /\ settings.compressionQuality = (IF performanceTier = "low" THEN 3 ELSE 5)

C16_Witness ==
  /\ deviceType = "desktop"
  /\ performanceTier = "medium"
  /\ settings.enableClustering
  /\ ~settings.enableProgressiveLoading
  /\ settings.debounceDelay = 150
  /\ settings.compressionQuality = 5

\* C17 (as stated): with 2 cores and 1 GB reported the tier is low and
\* maxVisibleMarkers is at most 20, whatever the user agent
C17_LowEndCapAnyUserAgent ==
  (navigator.present /\ navigator.hardwareConcurrency = 2 /\ navigator.deviceMemory4 = 4)
    => performanceTier = "low" /\ settings.maxVisibleMarkers <= 20

\* C17 (amended): with 2 cores and 1 GB reported the tier is low whatever the
\* user agent; maxVisibleMarkers is 20 when the user agent is a mobile one and
\* 500 when it is not
C17_LowEndCapMobileUserAgent ==
  (navigator.present /\ navigator.hardwareConcurrency = 2 /\ navigator.deviceMemory4 = 4)
    => /\ performanceTier = "low"
       /\ MobileUserAgent => settings.maxVisibleMarkers = 20
       /\ ~MobileUserAgent => settings.maxVisibleMarkers = 500

C17_Witness ==
  /\ navigator.present
  /\ navigator.hardwareConcurrency = 2
  /\ navigator.deviceMemory4 = 4
  /\ "iPhone" \in navigator.ua
  /\ performanceTier = "low"
  /\ settings.maxVisibleMarkers = 20

NoHardwareSignals ==
  \/ ~navigator.present
  \/ /\ navigator.hardwareConcurrency = 0
     /\ navigator.deviceMemory4 = 0
     /\ navigator.effectiveType = ""

\* C18 (as stated): without a navigator, or with one that reports no core
\* count, memory or connection, nothing throws and the profile is the
\* desktop/high default: device type desktop, tier high, cap 500
C18_DefaultsWithoutSignals ==
  NoHardwareSignals =>
    /\ ~thrown
    /\ deviceType = "desktop"
    /\ performanceTier = "high"
    /\ settings.maxVisibleMarkers = 500

\* C18 (amended): without a navigator, or with one that reports no core count,
\* memory or connection, nothing throws and the tier is high; the device type
\* is desktop and the bundle the desktop one (cap 500, clustering and
\* progressive loading off) when there is no navigator or its user agent names
\* no mobile or tablet device, otherwise device type and cap follow the user
\* agent (cap 50 for a mobile user agent)
C18_HighTierWithoutSignals ==
  NoHardwareSignals =>
    /\ ~thrown
    /\ performanceTier = "high"
    /\ (~navigator.present \/ navigator.ua \cap (MobileTokens \cup {"Tablet"}) = {}) =>
         /\ deviceType = "desktop"
         /\ settings.maxVisibleMarkers = 500
         /\ ~settings.enableClustering
         /\ ~settings.enableProgressiveLoading
    /\ MobileUserAgent =>
         /\ deviceType \in {"mobile", "tablet"}
         /\ settings.maxVisibleMarkers = 50

C18_Witness ==
  /\ navigator.present
  /\ navigator.ua = {"Windows"}
  /\ NoHardwareSignals
  /\ deviceType = "desktop"
  /\ performanceTier = "high"
  /\ settings.maxVisibleMarkers = 500

(***************************************************************************)
(* Performance monitor (SpecMonitor, SpecRender)                           *)
(***************************************************************************)
\* C19 (as stated): for every warning type the warning callback has been
\* invoked at most once since the last clearWarning(type), or since
\* construction
C19_OneCallbackBetweenClears ==
  \A type \in WarningTypes : callsSinceClear[type] <= 1

\* C19 (amended): for every warning type the warning callback has been invoked
\* at most once since the type was last removed from the warnings by
\* clearWarning(type) or by reset(), however many samples have breached the
\* threshold since; as soon as one sample has breached it (an FPS sample below
\* 20 for low-fps) the type is among the warnings and the callback has been
\* invoked exactly once
C19_OneCallbackBetweenClearsOrReset ==
  \A type \in WarningTypes :
    /\ notified[type].calls <= 1
    /\ notified[type].breaches >= 1 =>
         /\ type \in monitor.warnings
         /\ notified[type].calls = 1
    /\ type \in monitor.warnings => notified[type].calls = 1

C19_Witness ==
  /\ lastOp = "calculateFPS"
  /\ monitor.metrics.fps < LOW_FPS_THRESHOLD
  /\ notified["low-fps"].breaches = 2
  /\ notified["low-fps"].calls = 1
  /\ "low-fps" \in monitor.warnings

\* C20 (as stated): when the observer is handed the measure of a bracketed
\* operation that took more than 16 ms, slow-render is among the warnings
C20_SlowMeasureRaisesSlowRender ==
  [][(lastOp' = "performanceObserver" /\ perfEntries # <<>> /\ perfEntries' = <<>>
        /\ \E i \in 1..Len(perfEntries) : perfEntries[i].duration > MAX_RENDER_TIME_MS)
       => "slow-render" \in monitor'.warnings]_vars

\* C21: the recommendations of the latest report are those of its own metrics
\* and the device type under every warning set, so two monitor states with
\* equal metrics and device type but different warnings report identical
\* recommendations
C21_RecommendationsIgnoreWarnings ==
  performanceStats.emitted =>
    \A warnings \in SUBSET WarningTypes :
      performanceStats.recommendations =
        getRecommendations([ metrics    |-> performanceStats.metrics,
                             warnings   |-> warnings,
                             deviceType |-> monitor.deviceType ])

\* a report that recommends on the frame rate and on memory while neither
\* warning is active, both having been cleared
C21_Witness ==
  /\ performanceStats.emitted
  /\ lastOp = "generateReport"
  /\ performanceStats.warnings = {}
  /\ callsSinceClear = [type \in WarningTypes |-> 0]
  /\ performanceStats.metrics.memoryUsage > MEMORY_USAGE_MB
  /\ performanceStats.recommendations = <<"fps", "memory">>

\* C22: once stopMonitoring or cleanup has been called, and until monitoring
\* is started again, no interval runs and the observer is disconnected, and no
\* step changes a metric, the warnings or the latest report
C22_NothingSampledAfterTeardown ==
  [][tornDown' =>
       /\ ~monitor'.isMonitoring
       /\ ~monitor'.observing
       /\ tornDown =>
            /\ monitor'.metrics = monitor.metrics
            /\ monitor'.warnings = monitor.warnings
            /\ performanceStats' = performanceStats]_vars

(***************************************************************************)
(* Clusterer                                                               *)
(***************************************************************************)
\* C23: for every cluster that getClusters returns for the loaded index, in
\* any view and at any zoom, getClusterStations of its id returns as many
\* stations as the cluster's point_count
C23_LeavesMatchPointCount ==
  \A view \in Views, zoom \in ZoomLevels :
    \A f \in SuperclusterFeatures(clusterIndex, getCurrentBounds(view), zoom) :
      f.cluster_id \in getClusters(clusterIndex, getCurrentBounds(view), zoom).clusters
        => Cardinality(getClusterStations(clusterIndex, f.cluster_id)) = f.point_count

\* the recompute has shown a cluster of more stations than getLeaves returns
\* by default
C23_Witness ==
  /\ lastMode = "cluster"
  /\ \E f \in SuperclusterFeatures(clusterIndex, currentBounds, currentZoom) :
       /\ f.cluster_id \in selClusters
       /\ f.point_count > DefaultLimit.n
       /\ Cardinality(getClusterStations(clusterIndex, f.cluster_id)) = f.point_count

\* the first `limit` distinct non-empty names of a sequence of properties
RECURSIVE FirstDistinctNames(_, _, _)
FirstDistinctNames(members, limit, seen) ==
  IF members = <<>> \/ Len(seen) = limit THEN seen
  ELSE LET name == Head(members).name
       IN  FirstDistinctNames(Tail(members), limit,
                              IF name = "" \/ name \in SeqToSet(seen) THEN seen
                              ELSE Append(seen, name))

RECURSIVE TotalArea(_)
TotalArea(members) ==
  IF members = <<>> THEN 0 ELSE Head(members).area + TotalArea(Tail(members))

\* C24: the accumulated properties of a cluster hold the number of merged
\* points, the sum of their areas and the first 3 distinct names in the order
\* met: never more than 3 names and never the same name twice
C24_ReduceKeepsThreeDistinctNames ==
  /\ reduction.accumulated.stationCount = Len(reduction.members)
  /\ reduction.accumulated.totalArea = TotalArea(reduction.members)
  /\ reduction.accumulated.stationNames = FirstDistinctNames(reduction.members, 3, <<>>)
  /\ Len(reduction.accumulated.stationNames) <= 3
  /\ \A i, j \in 1..Len(reduction.accumulated.stationNames) :
       i # j => reduction.accumulated.stationNames[i] # reduction.accumulated.stationNames[j]

\* the stations of a list the clusterer can take: visible, with bounds of
\* two corners
LoadableIds(list) ==
  {list[i].id : i \in {j \in 1..Len(list) :
     list[j].visible /\ list[j].bounds # <<>> /\ Len(list[j].bounds) = 2}}

\* C25: whenever clustering is enabled (so after setStations, forceUpdate
\* and setClusteringEnabled(true) too) the index of the clusterer holds
\* exactly the visible stations with two-corner bounds of the current
\* list, one point each and nothing of an earlier list; the index is a
\* function of the list, so loading a list again leaves it as it is.
C25_IndexHoldsLoadableStations ==
  clusteringEnabled =>
    /\ {p.id : p \in clusterIndex} = LoadableIds(stations)
    /\ Cardinality(clusterIndex) = Cardinality(LoadableIds(stations))

C25_Witness ==
  /\ clusteringEnabled
  /\ lastOp \in {"setStations", "forceUpdate", "setClusteringEnabled"}
  /\ clusterIndex # {}
  /\ \E i \in 1..Len(stations) : ~stations[i].visible
  /\ \E i \in 1..Len(stations) : stations[i].bounds = <<>> \/ Len(stations[i].bounds) # 2

\* C26: a step in which the monitor raises critical-memory or low-fps ends
\* with clustering enabled in the manager and a recompute done; a step that
\* raises other warnings only leaves the manager's clustering switch, the
\* index of the clusterer and the recompute count as they were
C26_CriticalWarningsForceClustering ==
  [][LET raised == {type \in WarningTypes :
                      type \notin monitor.warnings /\ type \in monitor.warnings'}
         critical == {"critical-memory", "low-fps"}
     IN  /\ raised \cap critical # {} => clusteringEnabled' /\ epoch' > epoch
         /\ (raised # {} /\ raised \cap critical = {}) =>
              /\ clusteringEnabled' = clusteringEnabled
              /\ clusterIndex' = clusterIndex
              /\ epoch' = epoch]_vars

C26_Witness ==
  /\ navigator = DesktopNav
  /\ lastOp = "checkMemoryUsage"
  /\ monitor.warnings = {"high-memory", "critical-memory"}
  /\ notified["critical-memory"].calls = 1
  /\ clusteringEnabled
  /\ epoch > 0

\* the technical records of the current list, and the ids found by the search
TechnicalRecords == SeqToSet(technical.data)
NearestTechnicalIds ==
  {technical.nearest[i].id : i \in {j \in 1..Len(technical.nearest) :
                                      technical.nearest[j].type = "technical"}}

\* C27 (as stated): a technical record gets no marker, and is not found by
\* the search for the nearest stations, if and only if its latitude and its
\* longitude are both 0
C27_ExcludedIffBothZero ==
  \A tech \in TechnicalRecords :
    LET bothZero == tech.latitude = Num(0) /\ tech.longitude = Num(0)
    IN  /\ tech.id \notin technical.markers <=> bothZero
        /\ lastOp = "getCurrentPosition" => (tech.id \notin NearestTechnicalIds <=> bothZero)

\* C27 (amended): a technical record gets no marker, and is not found by the
\* search for the nearest stations, if and only if its latitude or its
\* longitude is 0 or not a number
C27_ExcludedIffEitherZeroOrNaN ==
  \A tech \in TechnicalRecords :
    LET unusable == \/ tech.latitude \in {Num(0), NaN}
                    \/ tech.longitude \in {Num(0), NaN}
    IN  /\ tech.id \notin technical.markers <=> unusable
        /\ lastOp = "getCurrentPosition" => (tech.id \notin NearestTechnicalIds <=> unusable)

C27_Witness ==
  /\ lastOp = "getCurrentPosition"
  /\ Len(technical.data) = 2
  /\ technical.data[1].latitude = Num(0) /\ technical.data[1].longitude = Num(100)
  /\ technical.data[2].latitude = Num(13) /\ technical.data[2].longitude = Num(100)
  /\ technical.markers = {2}
  /\ NearestTechnicalIds = {2}

\* C28: every accessibility score is a whole number from 0 to 100, and of two
\* scores of the same station the one for the greater distance is not the
\* higher
C28_ScoreInRangeAndMonotone ==
  /\ \A i \in 1..Len(scored) : scored[i].score \in 0..100
  /\ \A i, j \in 1..Len(scored) :
       (scored[i].station = scored[j].station /\ scored[i].distance <= scored[j].distance)
         => scored[i].score >= scored[j].score

C28_Witness ==
  /\ Len(scored) = 2
  /\ scored[1].station = scored[2].station
  /\ scored[1].station.type = "technical"
  /\ scored[1].distance < scored[2].distance
  /\ scored[1].score = 100
  /\ scored[2].score = 70

\* C29: in every reachable state the number of station overlays on the map
\* is at most the cap getMaxVisibleStations gives for the device
C29_OverlaysWithinCap ==
  Cardinality(mapOverlays) <= getMaxVisibleStations(deviceType, performanceTier)

\* the queue is empty, no drain runs, and every entry ever queued was handed
\* to addStationOverlay or dropped when the queue was emptied
Drained ==
  /\ loadingQueue = <<>>
  /\ ~isProcessing
  /\ queueLog.enqueued \subseteq queueLog.attempted \cup skipped

\* C30: with promises settling and timers firing, a drain of the loading
\* queue ends: from any state where a drain is running, a state follows
\* where the queue is empty, isProcessing is false, and every station that
\* was queued has had its overlay attempted or was dropped by a truncation
C30_DrainTerminates == isProcessing ~> Drained

C30_Witness ==
  /\ Drained
  /\ queueLog.attempted # {}
  /\ skipped # {}
  /\ Cardinality(queueLog.attempted) > BATCH_SIZE

\* C31: in every state with stations on the loading queue a drain is in
\* progress: isProcessing is true, so no queued station waits for a later
\* event to start the drain
C31_QueuedStationsAreBeingDrained ==
  Len(loadingQueue) > 0 => isProcessing

C31_Witness ==
  /\ Len(loadingQueue) > 0
  /\ isProcessing
  /\ drainPc = "delay"
  /\ NoMicrotask(M)

\* C32: at most one drain loop of processLoadingQueue is active, and
\* isProcessing is true exactly while one is; a recompute that arrives while
\* a drain is waiting for its next batch starts no loop: it replaces the
\* queue, and the waiting loop goes on to serve it
C32_OneDrainLoop ==
  /\ [](/\ queueLog.loops \in {0, 1}
        /\ isProcessing <=> queueLog.loops = 1
        /\ isProcessing <=> drainPc # "idle")
  /\ [][(isProcessing /\ epoch' > epoch) =>
          /\ isProcessing'
          /\ queueLog.loops' = queueLog.loops
          /\ drainPc' = drainPc
          /\ overlayTasks' = overlayTasks]_vars

C32_Witness ==
  /\ lastOp = "setStations"
  /\ epoch > 1
  /\ drainPc = "delay"
  /\ queueLog.loops = 1
  /\ \E i \in 1..Len(loadingQueue) : loadingQueue[i].ep = epoch
  /\ skipped # {}

C34_StaleErrorSparesCurrent ==
  [][\A overlay \in imgLoading :
       (/\ overlay \notin overlayRefs
        /\ lastOp' = "overlayError"
        /\ imgLoading' = imgLoading \ {overlay})
       => /\ overlayRefs' = overlayRefs
          /\ renderedStations' = renderedStations]_vars

\* C35: the cap the manager truncates to is the maxVisibleMarkers of the
\* settings it holds, on every device
C35_CapIsSettingsCap ==
  getMaxVisibleStations(deviceType, performanceTier) = settings.maxVisibleMarkers

\* low < medium < high
TierRank(tier) == IF tier = "low" THEN 0 ELSE IF tier = "medium" THEN 1 ELSE 2

\* a reading of navigator.hardwareConcurrency or deviceMemory that is the
\* same or higher; a value the browser does not report (0) stays unreported
RaisedTo(reading, higher) ==
  IF reading = 0 THEN higher = 0 ELSE higher >= reading

\* C36: on the same connection a navigator with as many or more cores and as
\* much or more memory is never graded into a lower tier
C36_TierMonotoneInHardware ==
  \A nav \in AllNavigators :
    (/\ navigator.present
     /\ nav.present
     /\ nav.effectiveType = navigator.effectiveType
     /\ RaisedTo(navigator.hardwareConcurrency, nav.hardwareConcurrency)
     /\ RaisedTo(navigator.deviceMemory4, nav.deviceMemory4))
    => TierRank(getPerformanceTier(nav)) >= TierRank(performanceTier)

\* C37: a user agent with Android and Mobile is a mobile device; a tablet is
\* a user agent with iPad, with Tablet, or with Android and without Mobile
C37_AndroidPhoneIsMobile ==
  /\ (navigator.present /\ {"Android", "Mobile"} \subseteq navigator.ua)
       => deviceType = "mobile"
  /\ deviceType = "tablet"
       => \/ navigator.ua \cap {"iPad", "Tablet"} # {}
          \/ ("Android" \in navigator.ua /\ "Mobile" \notin navigator.ua)

\* C38: every fps sample calculateFPS records is at least the low-fps
\* threshold and no low-fps warning is raised, the page rendering at 20
\* frames per second or more (calculateFPS is handed no frame: the sample is
\* computed from the time since its previous call alone)
C38_SamplesReflectFrameRate ==
  /\ lastOp = "calculateFPS" => monitor.metrics.fps >= LOW_FPS_THRESHOLD
  /\ "low-fps" \notin monitor.warnings

\* C39: startMonitoring on a monitor that is monitoring changes nothing of
\* it, and whenever monitoring is active, after a stop and a start too, the
\* render-time observer is connected as it was before the stop
C39_StartIsIdempotentAndRestarts ==
  /\ [](monitor.isMonitoring => monitor.observing)
  /\ [][(monitor.isMonitoring /\ lastOp' = "startMonitoring" /\ samples' > samples)
          => monitor' = monitor]_vars

\* C40: the rendered ids are the keys of the overlay table, one overlay to
\* a key
C40_RenderedIsOverlayKeys ==
  /\ renderedStations = {overlay.id : overlay \in overlayRefs}
  /\ Cardinality(overlayRefs) = Cardinality(renderedStations)

\* overlays have been registered by the drain and one of them has since been
\* removed by its error handler
C40_Witness ==
  /\ lastOp = "overlayError"
  /\ \E id \in Unreliable : id \notin renderedStations
  /\ renderedStations # {}
  /\ epoch > 0

====
